---- MODULE Spec2Model ----
(***************************************************************************)
(* A model of the CXXRTL backend (backends/cxxrtl/cxxrtl.cc): the flow     *)
(* graph, the feedback-arc scheduler, the elision/localization analysis,   *)
(* the name mangler and the driver that writes the output streams.         *)
(***************************************************************************)
EXTENDS Integers, Sequences, FiniteSets, TLC

(***************************************************************************)
(* Bounds of the explored netlists.                                        *)
(***************************************************************************)
NumWires == 3
MaxNodes == 2
MaxProcs == 3

Wires == 1..NumWires

\* the wires that the nodes of the explored netlists connect, unless said otherwise
NumNetWires == 2

NetWires == 1..NumNetWires

NodeIds == 1..(IF MaxNodes > MaxProcs THEN MaxNodes ELSE MaxProcs)
NoWire == 0

(***************************************************************************)
(* Small helpers on sequences and sets.                                    *)
(***************************************************************************)
Range(s) == {s[i] : i \in DOMAIN s}

Reverse(s) == [i \in 1..Len(s) |-> s[Len(s) + 1 - i]]

Remove(s, x) == SelectSeq(s, LAMBDA y : y # x)

\* the place of x in a sequence that holds it once
Pos(seq, x) == CHOOSE i \in DOMAIN seq : seq[i] = x

\* every order in which a container holding exactly S can be iterated
Orders(S) == {s \in [1..Cardinality(S) -> S] : \A i, j \in 1..Cardinality(S) : s[i] = s[j] => i = j}

(***************************************************************************)
(* RTLIL cell type classification.                                         *)
(***************************************************************************)
UnaryCells == {"$not", "$logic_not", "$reduce_and", "$reduce_or", "$reduce_xor", "$reduce_xnor",
               "$reduce_bool", "$pos", "$neg"}

BinaryCells == {"$and", "$or", "$xor", "$xnor", "$logic_and", "$logic_or",
                "$shl", "$sshl", "$shr", "$sshr", "$shift", "$shiftx",
                "$eq", "$ne", "$eqx", "$nex", "$gt", "$ge", "$lt", "$le",
                "$add", "$sub", "$mul", "$div", "$mod"}

FFOnlyCells == {"$adff", "$dffsr", "$dlatch", "$dlatchsr", "$sr"}

\* the internal ($-prefixed) cell types; every other cell type names a user module
InternalCells == UnaryCells \cup BinaryCells \cup FFOnlyCells \cup
                 {"$mux", "$concat", "$slice", "$dff", "$dffe", "$pmux", "$memrd", "$memwr", "$meminit", "$mem"}

is_unary_cell(type) == type \in UnaryCells

is_binary_cell(type) == type \in BinaryCells

is_elidable_cell(type) == is_unary_cell(type) \/ is_binary_cell(type) \/ type \in {"$mux", "$concat", "$slice"}

\* no cell type counted as a synchronous flip-flop
is_sync_ff_cell_none(type) == FALSE

is_sync_ff_cell(type) == type \in {"$dff", "$dffe"}

is_ff_cell(type) == is_sync_ff_cell(type) \/ type \in FFOnlyCells

is_internal_cell(type) == type \in InternalCells

is_mem_port(type) == type \in {"$memrd", "$memwr"}

(***************************************************************************)
(* Signals.  A SigSpec is a sequence of chunks; a chunk is a constant      *)
(* (wire = NoWire) or a slice of a wire, which covers the whole wire       *)
(* (offset 0, full width) or only a part of it.                            *)
(***************************************************************************)
Chunk(w, whole) == [wire |-> w, whole |-> whole]

\* SigSpec::is_wire: exactly one chunk, and it is an entire wire
is_wire(sig) == Len(sig) = 1 /\ sig[1].wire # NoWire /\ sig[1].whole

as_wire(sig) == sig[1].wire

(***************************************************************************)
(* FlowGraph.  Nodes are identified by their index in the order the        *)
(* netlist lists them (connections, then cells, then processes).           *)
(***************************************************************************)
EmptyFlow == [nodes |-> <<>>,
              wire_defs |-> [w \in Wires |-> {}],
              wire_uses |-> [w \in Wires |-> {}],
              wire_def_elidable |-> [w \in Wires |-> "absent"],
              wire_use_elidable |-> [w \in Wires |-> "absent"]]

BoolStr(b) == IF b THEN "true" ELSE "false"

RECURSIVE add_defs_chunks(_, _, _)
add_defs_chunks(wire_defs, node, sig) ==
    IF sig = <<>> THEN wire_defs
    ELSE add_defs_chunks(IF Head(sig).wire # NoWire
                            THEN [wire_defs EXCEPT ![Head(sig).wire] = @ \cup {node}]
                            ELSE wire_defs,
                         node, Tail(sig))

add_defs(flow, node, sig, elidable) ==
    [flow EXCEPT !.wire_defs = add_defs_chunks(@, node, sig),
                 !.wire_def_elidable = IF is_wire(sig)
                                          THEN [@ EXCEPT ![as_wire(sig)] = BoolStr(elidable)]
                                          ELSE @]

\* add_uses counting the nodes that use a wire instead of the chunks that name it
RECURSIVE add_uses_per_node(_, _, _)
add_uses_per_node(flow, node, sig) ==
    IF sig = <<>> THEN flow
    ELSE LET chunk == Head(sig)
             next == IF chunk.wire # NoWire
                        THEN [flow EXCEPT !.wire_uses[chunk.wire] = @ \cup {node},
                                          !.wire_use_elidable[chunk.wire] =
                                              IF flow.wire_uses[chunk.wire] \subseteq {node}
                                                 THEN "true" ELSE "false"]
                        ELSE flow
         IN  add_uses_per_node(next, node, Tail(sig))

RECURSIVE add_uses(_, _, _)
add_uses(flow, node, sig) ==
    IF sig = <<>> THEN flow
    ELSE LET chunk == Head(sig)
             next == IF chunk.wire # NoWire
                        THEN [flow EXCEPT !.wire_uses[chunk.wire] = @ \cup {node},
                                          !.wire_use_elidable[chunk.wire] =
                                              IF @ = "absent" THEN "true" ELSE "false"]
                        ELSE flow
         IN  add_uses(next, node, Tail(sig))

is_elidable(flow, wire) ==
    IF flow.wire_def_elidable[wire] # "absent" /\ flow.wire_use_elidable[wire] # "absent"
       THEN flow.wire_def_elidable[wire] = "true" /\ flow.wire_use_elidable[wire] = "true"
       ELSE FALSE

add_connect_defs_uses(flow, node, conn) ==
    add_uses(add_defs(flow, node, conn.first, TRUE), node, conn.second)

\* the connections of a cell, as (port, signal) pairs
cell_connections(cell) ==
    IF is_ff_cell(cell.ctype)
       THEN <<[port |-> "Q", sig |-> cell.first], [port |-> "D", sig |-> cell.second],
              [port |-> "CLK", sig |-> cell.clk]>>
       ELSE IF is_mem_port(cell.ctype)
       THEN <<[port |-> "CLK", sig |-> cell.clk], [port |-> "EN", sig |-> cell.en],
              [port |-> "ADDR", sig |-> cell.second], [port |-> "DATA", sig |-> cell.first]>>
       ELSE <<[port |-> "Y", sig |-> cell.first], [port |-> "A", sig |-> cell.second]>>

\* DATA is the output of a read port and an input of a write port
cell_output(cell, port) == port \in {"Y", "Q"} \/ (cell.ctype = "$memrd" /\ port = "DATA")

cell_input(cell, port) == ~cell_output(cell, port)

RECURSIVE add_cell_conns(_, _, _, _)
add_cell_conns(flow, node, cell, conns) ==
    IF conns = <<>> THEN flow
    ELSE LET conn == Head(conns)
             f1 == IF cell_output(cell, conn.port)
                      THEN IF is_sync_ff_cell(cell.ctype) \/ (cell.ctype = "$memrd" /\ cell.clk_enable) THEN flow
                           ELSE IF is_elidable_cell(cell.ctype) THEN add_defs(flow, node, conn.sig, TRUE)
                           ELSE IF is_internal_cell(cell.ctype) THEN add_defs(flow, node, conn.sig, FALSE)
                           ELSE add_defs(flow, node, conn.sig, TRUE)
                      ELSE flow
             f2 == IF cell_input(cell, conn.port) THEN add_uses(f1, node, conn.sig) ELSE f1
         IN  add_cell_conns(f2, node, cell, Tail(conns))

add_cell_defs_uses(flow, node, cell) == add_cell_conns(flow, node, cell, cell_connections(cell))

EdgeSyncTypes == {"STp", "STn", "STe"}

\* a process is a root case with one action, or one sync rule with one action
add_process_defs_uses(flow, node, process) ==
    IF process.sync = "none"
       THEN add_uses(add_defs(flow, node, process.first, FALSE), node, process.second)
       ELSE add_uses(IF process.sync \in EdgeSyncTypes THEN flow
                     ELSE add_defs(flow, node, process.first, FALSE),
                     node, process.second)

add_node(flow, node, data) ==
    LET f1 == [flow EXCEPT !.nodes = Append(@, node)]
    IN  CASE data.type = "CONNECT" -> add_connect_defs_uses(f1, node, data)
          [] data.type = "CELL" -> add_cell_defs_uses(f1, node, data)
          [] OTHER -> add_process_defs_uses(f1, node, data)

(***************************************************************************)
(* Scheduler (Eades-Lin-Smyth).  Each bucket (sources, sinks, bins[d]) is  *)
(* the sequence of the vertices on the circular list, head first.  `ok`    *)
(* records that no log_assert of link/unlink/remove has failed.            *)
(***************************************************************************)
Deltas == (0 - Cardinality(NodeIds))..Cardinality(NodeIds)

EmptyScheduler == [vertices |-> <<>>,
                   preds |-> [v \in NodeIds |-> {}],
                   succs |-> [v \in NodeIds |-> {}],
                   sources |-> <<>>,
                   sinks |-> <<>>,
                   bins |-> [d \in Deltas |-> <<>>],
                   ok |-> TRUE]

Linked(st) == Range(st.sources) \cup Range(st.sinks) \cup UNION {Range(st.bins[d]) : d \in Deltas}

\* Vertex::link: append at the tail of the list (list->prev)
link(st, v, list) ==
    LET st1 == [st EXCEPT !.ok = @ /\ v \notin Linked(st)]
    IN  CASE list.kind = "sinks" -> [st1 EXCEPT !.sinks = Append(@, v)]
          [] list.kind = "sources" -> [st1 EXCEPT !.sources = Append(@, v)]
          [] OTHER -> [st1 EXCEPT !.bins[list.delta] = Append(@, v)]

unlink(st, v) ==
    [st EXCEPT !.ok = @ /\ v \in Linked(st),
               !.sources = Remove(@, v),
               !.sinks = Remove(@, v),
               !.bins = [d \in Deltas |-> Remove(@[d], v)]]

delta(st, v) == Cardinality(st.succs[v]) - Cardinality(st.preds[v])

\* relink that files a vertex without predecessors under its delta
relink_no_sources(st, v) ==
    IF st.succs[v] = {} THEN link(st, v, [kind |-> "sinks"])
    ELSE link(st, v, [kind |-> "bin", delta |-> delta(st, v)])

relink(st, v) ==
    IF st.succs[v] = {} THEN link(st, v, [kind |-> "sinks"])
    ELSE IF st.preds[v] = {} THEN link(st, v, [kind |-> "sources"])
    ELSE link(st, v, [kind |-> "bin", delta |-> delta(st, v)])

\* remove() with the relink(pred) call left out
RECURSIVE remove_preds_unlinked(_, _, _)
remove_preds_unlinked(st, v, order) ==
    IF order = <<>> THEN st
    ELSE LET pred == Head(order)
             st1 == [st EXCEPT !.ok = @ /\ v \in st.succs[pred]]
             st2 == unlink(st1, pred)
             st3 == [st2 EXCEPT !.succs[pred] = @ \ {v}]
         IN  remove_preds_unlinked(st3, v, Tail(order))

\* the loop of remove() over vertex->preds, visited in the order `order`
RECURSIVE remove_preds(_, _, _)
remove_preds(st, v, order) ==
    IF order = <<>> THEN st
    ELSE LET pred == Head(order)
             st1 == [st EXCEPT !.ok = @ /\ v \in st.succs[pred]]
             st2 == unlink(st1, pred)
             st3 == [st2 EXCEPT !.succs[pred] = @ \ {v}]
         IN  remove_preds(relink(st3, pred), v, Tail(order))

\* the loop of remove() over vertex->succs, visited in the order `order`
RECURSIVE remove_succs(_, _, _)
remove_succs(st, v, order) ==
    IF order = <<>> THEN st
    ELSE LET succ == Head(order)
             st1 == [st EXCEPT !.ok = @ /\ v \in st.preds[succ]]
             st2 == unlink(st1, succ)
             st3 == [st2 EXCEPT !.preds[succ] = @ \ {v}]
         IN  remove_succs(relink(st3, succ), v, Tail(order))

\* remove() that leaves the vertex on its bucket list
remove_still_linked(st, v, pred_order, succ_order) ==
    CHOOSE st4 \in {[st3 EXCEPT !.preds[v] = {}, !.succs[v] = {}] :
                       st3 \in {remove_succs(st2, v, succ_order) :
                       st2 \in {remove_preds(st, v, pred_order)}}} : TRUE

\* self-loops are skipped by both loops; st1, st2, st3 are the scheduler after
\* unlink(), after the loop over preds and after the loop over succs
remove(st, v, pred_order, succ_order) ==
    CHOOSE st4 \in {[st3 EXCEPT !.preds[v] = {}, !.succs[v] = {}] :
                       st3 \in {remove_succs(st2, v, succ_order) :
                       st2 \in {remove_preds(st1, v, pred_order) :
                       st1 \in {unlink(st, v)}}}} : TRUE

RECURSIVE relink_all(_, _)
relink_all(st, vs) ==
    IF vs = <<>> THEN st ELSE relink_all(relink(st, Head(vs)), Tail(vs))

\* bins sorted with std::greater: the first non-empty bin is the one of greatest delta
NonEmptyBins(st) == {d \in Deltas : st.bins[d] # <<>>}

MaxBin(st) == CHOOSE d \in NonEmptyBins(st) : \A e \in NonEmptyBins(st) : e <= d

(***************************************************************************)
(* The netlists explored: one module of NumWires one-bit wires and up to   *)
(* MaxNodes flow nodes that connect the first NumNetWires of them.         *)
(***************************************************************************)
WireKinds == <<[port_id |-> 0, keep |-> FALSE, public |-> FALSE],
               [port_id |-> 0, keep |-> FALSE, public |-> TRUE],
               [port_id |-> 1, keep |-> FALSE, public |-> TRUE],
               [port_id |-> 0, keep |-> TRUE, public |-> FALSE]>>

\* the wires of a module are interchangeable: their kinds are listed in one order only
WireAttrs == {[w \in Wires |-> IF w \in NetWires THEN WireKinds[k[w]] ELSE WireKinds[1]] :
                k \in {kf \in [NetWires -> DOMAIN WireKinds] : \A v, w \in NetWires : v < w => kf[v] <= kf[w]}}

Node(type, ctype, first, second, clk, sync) ==
    [type |-> type, ctype |-> ctype, first |-> first, second |-> second, clk |-> clk,
     clk_polarity |-> TRUE, sync |-> sync]

WholeSigs == {<<Chunk(w, TRUE)>> : w \in NetWires}

LhsSigs == {<<Chunk(w, b)>> : w \in NetWires, b \in BOOLEAN}

RhsSigs == {<<>>} \cup WholeSigs

ConnectChoices == {Node("CONNECT", "none", l, r, <<>>, "none") : l \in LhsSigs, r \in RhsSigs}

CellChoices ==
    {Node("CELL", "$not", y, a, <<>>, "none") : y \in WholeSigs, a \in WholeSigs}
    \cup {Node("CELL", "$dff", q, <<>>, c, "none") : q \in WholeSigs, c \in WholeSigs}
    \cup {Node("CELL", t, y, <<>>, <<>>, "none") : t \in {"$pmux", "\\child"}, y \in WholeSigs}

ProcessChoices == {Node("PROCESS", "none", l, r, <<>>, "none") : l \in WholeSigs, r \in RhsSigs}

NodeChoices == ConnectChoices \cup CellChoices \cup ProcessChoices

(***************************************************************************)
(* SigMap: the wires joined by whole-wire connections form a class, and    *)
(* every wire of a class is mapped to one representative of the class.     *)
(* Which wire represents a class is fixed by the netlist.                  *)
(***************************************************************************)
Joined(ns, a, b) ==
    \E i \in DOMAIN ns :
        /\ ns[i].type = "CONNECT"
        /\ is_wire(ns[i].first) /\ is_wire(ns[i].second)
        /\ {as_wire(ns[i].first), as_wire(ns[i].second)} = {a, b}

RECURSIVE SigClass(_, _, _)
SigClass(ns, S, n) ==
    IF n = 0 THEN S
    ELSE SigClass(ns, S \cup {b \in Wires : \E a \in S : Joined(ns, a, b)}, n - 1)

SigMaps(ns) ==
    {m \in [Wires -> Wires] :
        \A w \in Wires : /\ m[w] \in SigClass(ns, {w}, NumWires)
                         /\ \A v \in SigClass(ns, {w}, NumWires) : m[v] = m[w]}

TypeRank(type) == CASE type = "CONNECT" -> 1 [] type = "CELL" -> 2 [] OTHER -> 3

\* analyze_design adds the connections, then the cells, then the processes
NodeSeqs(max) == UNION {{ns \in [1..n -> NodeChoices] :
                           \A i, j \in 1..n : i < j => TypeRank(ns[i].type) <= TypeRank(ns[j].type)}
                        : n \in 1..max}

\* the modules of up to max nodes
Designs(max) == UNION {{[wires |-> wa, nodes |-> ns, sigmap |-> m] : wa \in WireAttrs, m \in SigMaps(ns)}
                       : ns \in NodeSeqs(max)}

(***************************************************************************)
(* The netlists explored for the scheduler: up to MaxProcs processes, each *)
(* assigning a concatenation of slices of any of the wires from a          *)
(* concatenation of any of the wires, which gives flow graphs with         *)
(* self-loops, 2-cycles, longer cycles, chains and isolated nodes.         *)
(***************************************************************************)
RECURSIVE ConcatOf(_, _)
ConcatOf(S, whole) ==
    IF S = {} THEN <<>>
    ELSE LET w == CHOOSE x \in S : \A y \in S : x <= y
         IN  <<Chunk(w, whole)>> \o ConcatOf(S \ {w}, whole)

CaseProcesses == {Node("PROCESS", "none", ConcatOf(D, FALSE), ConcatOf(U, TRUE), <<>>, "none") :
                     D \in SUBSET NetWires, U \in SUBSET NetWires}

\* the modules of up to max processes
SchedDesigns(max) == {[wires |-> [w \in Wires |-> WireKinds[1]], nodes |-> ns, sigmap |-> [w \in Wires |-> w]] :
                         ns \in UNION {[1..n -> CaseProcesses] : n \in 1..max}}

(***************************************************************************)
(* The netlists explored for the flow graph and the edge signals: up to    *)
(* MaxFlowNodes nodes, among them connections whose right side holds the   *)
(* same wire in two chunks, flip-flops whose D and CLK inputs can be the   *)
(* same wire, of either clock polarity, and processes with one edge-type   *)
(* sync rule.                                                              *)
(***************************************************************************)
MaxFlowNodes == 3

FlowChoices ==
    {Node("CONNECT", "none", l, r, <<>>, "none") :
        l \in WholeSigs,
        r \in WholeSigs \cup {<<Chunk(v, FALSE), Chunk(w, FALSE)>> : v, w \in NetWires}}
    \cup {[Node("CELL", "$dff", <<Chunk(1, TRUE)>>, d, c, "none") EXCEPT !.clk_polarity = p] :
            d \in WholeSigs, c \in WholeSigs, p \in BOOLEAN}
    \cup {Node("PROCESS", "none", <<Chunk(1, TRUE)>>, r, c, t) :
            r \in WholeSigs, c \in WholeSigs, t \in EdgeSyncTypes}

\* the modules of up to max such nodes
FlowDesigns(max) ==
    UNION {{[wires |-> [w \in Wires |-> WireKinds[1]], nodes |-> ns, sigmap |-> m] : m \in SigMaps(ns)}
           : ns \in UNION {{x \in [1..n -> FlowChoices] :
                              \A i, j \in 1..n : i < j => TypeRank(x[i].type) <= TypeRank(x[j].type)}
                           : n \in 1..max}}

(***************************************************************************)
(* The netlists explored for the outputs of storage cells: up to MaxNodes  *)
(* nodes, each a flip-flop or latch of any type, a whole-wire connection   *)
(* or a process with one posedge sync rule.                                *)
(***************************************************************************)
FFChoices ==
    {Node("CELL", t, q, d, c, "none") :
        t \in {"$dff", "$dffe"} \cup FFOnlyCells, q \in WholeSigs, d \in WholeSigs,
        c \in {<<>>} \cup WholeSigs}
    \cup {Node("CONNECT", "none", l, r, <<>>, "none") : l \in WholeSigs, r \in RhsSigs}
    \cup {Node("PROCESS", "none", l, r, c, "STp") : l \in WholeSigs, r \in WholeSigs, c \in WholeSigs}

\* the modules of up to max such nodes, all wires internal
FFDesigns(max) ==
    {[wires |-> [w \in Wires |-> WireKinds[1]], nodes |-> ns, sigmap |-> [w \in Wires |-> w]] :
        ns \in UNION {{x \in [1..n -> FFChoices] :
                         \A i, j \in 1..n : i < j => TypeRank(x[i].type) <= TypeRank(x[j].type)}
                      : n \in 1..max}}

(***************************************************************************)
(* The netlists explored for the emitted code: up to MaxNodes nodes, each  *)
(* a whole-wire connection between any two of the NumWires wires or a      *)
(* process with one edge-type sync rule that assigns a constant; the first *)
(* and the last wire are ports or internal wires, the others are internal. *)
(***************************************************************************)
EmitChoices ==
    {Node("CONNECT", "none", <<Chunk(l, TRUE)>>, <<Chunk(r, TRUE)>>, <<>>, "none") : l, r \in Wires}
    \cup {Node("PROCESS", "none", <<Chunk(l, TRUE)>>, <<>>, <<Chunk(c, TRUE)>>, t) :
            l, c \in Wires, t \in EdgeSyncTypes}

EmitDesigns(max) ==
    UNION {{[wires |-> [w \in Wires |-> IF w \in P THEN WireKinds[3] ELSE WireKinds[1]],
             nodes |-> ns, sigmap |-> m] : P \in SUBSET {1, NumWires}, m \in SigMaps(ns)}
           : ns \in UNION {{x \in [1..n -> EmitChoices] :
                              \A i, j \in 1..n : i < j => TypeRank(x[i].type) <= TypeRank(x[j].type)}
                           : n \in 1..max}}

(***************************************************************************)
(* Name mangling.  An identifier and a generated name are sequences of     *)
(* byte values (92 is a backslash, 36 a dollar sign, 95 an underscore).    *)
(***************************************************************************)
MaxNameLen == 5
MaxShortLen == 2

\* the bytes the explored identifiers are made of: - 2 _ d and the non-ASCII byte 0xad
NameBytes == {45, 50, 95, 100, 173}

\* an IdString starts with a backslash or a dollar sign
FirstBytes == {92, 36}

NamesOfLen(n) == {<<p>> \o s : p \in FirstBytes, s \in [1..(n - 1) -> NameBytes]}

Names(maxlen) == UNION {NamesOfLen(n) : n \in 1..maxlen}

\* isalnum(c) of the C locale; a byte above 127 is a negative char, for which the
\* result is whatever the C library returns (high_alnum)
isalnum(c, high_alnum) ==
    \/ c \in 48..57 \/ c \in 65..90 \/ c \in 97..122
    \/ (c > 127 /\ high_alnum)

hex_digit(n) == IF n < 10 THEN 48 + n ELSE 97 + n - 10

\* the escape of one byte, with an underscore left as it is
mangle_char_plain_underscore(c, high_alnum) ==
    IF isalnum(c, high_alnum) \/ c = 95 THEN <<c>>
    ELSE LET l == c % 16
             h == (c \div 16) % 16
         IN  <<95, hex_digit(h), hex_digit(l), 95>>

\* the escape of one byte that is not the first of the identifier
mangle_char(c, high_alnum) ==
    IF isalnum(c, high_alnum) THEN <<c>>
    ELSE IF c = 95 THEN <<95, 95>>
    ELSE LET l == c % 16
             h == (c \div 16) % 16
         IN  <<95, hex_digit(h), hex_digit(l), 95>>

RECURSIVE mangle_rest(_, _)
mangle_rest(str, high_alnum) ==
    IF str = <<>> THEN <<>>
    ELSE mangle_char(Head(str), high_alnum) \o mangle_rest(Tail(str), high_alnum)

\* "p_" for a public name, "i_" for an internal one; any other first byte fails an assertion
mangle_name(name, high_alnum) ==
    IF name = <<>> THEN <<>>
    ELSE (IF Head(name) = 92 THEN <<112, 95>> ELSE <<105, 95>>) \o mangle_rest(Tail(name), high_alnum)

mangle_module_name(name, high_alnum) == mangle_name(name, high_alnum)

\* "memory_"
mangle_memory_name(name, high_alnum) == <<109, 101, 109, 111, 114, 121, 95>> \o mangle_name(name, high_alnum)

\* "cell_"
mangle_cell_name(name, high_alnum) == <<99, 101, 108, 108, 95>> \o mangle_name(name, high_alnum)

mangle_wire_name(name, high_alnum) == mangle_name(name, high_alnum)

\* the member names generated for an identifier used as a wire, a memory and a cell
mangle(name, high_alnum) ==
    [wire |-> mangle_wire_name(name, high_alnum),
     memory |-> mangle_memory_name(name, high_alnum),
     cell |-> mangle_cell_name(name, high_alnum)]

\* a name of up to long bytes paired with one of up to short bytes
NamePairs(long, short) == {[a |-> x, b |-> y] : x \in Names(long), y \in Names(short)}

(***************************************************************************)
(* The designs explored for dump_design: MaxModules modules, each with its *)
(* blackbox attribute, its selection, the modules its user cells           *)
(* instantiate, and whether it holds a process with a global-clock sync    *)
(* rule or an internal cell that dump_cell does not handle.                *)
(***************************************************************************)
MaxModules == 2

Modules == 1..MaxModules

Module(blackbox, selection, cells, global_clock, unsupported_cell) ==
    [blackbox |-> blackbox, selection |-> selection, cells |-> cells,
     global_clock |-> global_clock, unsupported_cell |-> unsupported_cell]

\* modules are listed leaves first, or instantiate themselves
PlainDesigns(M) ==
    {d \in [M -> {Module(bb, sel, c, FALSE, FALSE) :
                    bb \in BOOLEAN, sel \in {"none", "whole"}, c \in SUBSET M}] :
        \A m \in M : d[m].cells \subseteq 1..m}

\* the design d with one module made to hold what the command refuses
WithFault(d, m, fault) ==
    CASE fault = "partial" -> [d EXCEPT ![m].selection = "partial"]
      [] fault = "global_clock" -> [d EXCEPT ![m].global_clock = TRUE]
      [] OTHER -> [d EXCEPT ![m].unsupported_cell = TRUE]

FaultyDesigns(M) ==
    {WithFault(d, m, fault) : d \in PlainDesigns(M), m \in M,
                              fault \in {"partial", "global_clock", "unsupported_cell"}}

DumpDesigns(M) == PlainDesigns(M) \cup FaultyDesigns(M)

selected_module(d, m) == d[m].selection # "none"

selected_whole_module(d, m) == d[m].selection = "whole"

\* check_design: a module selected in part is refused
check_design(d) ==
    IF \E m \in Modules : ~d[m].blackbox /\ ~selected_whole_module(d, m) /\ selected_module(d, m)
       THEN "error_partial" ELSE "ok"

\* analyze_design, as far as dump_design depends on it: a global-clock sync rule is refused
analyze_design(d) ==
    IF \E m \in Modules : selected_module(d, m) /\ d[m].global_clock
       THEN "error_global_clock" ELSE "ok"

prepare_design(d) == IF check_design(d) # "ok" THEN check_design(d) ELSE analyze_design(d)

\* the modules dump_design visits: selected and not a blackbox
topo_roots(d) == {m \in Modules : ~(d[m].blackbox \/ ~selected_module(d, m))}

\* topo_design.node(module), and edge() adds the instantiated module as a node too
topo_nodes(d) == topo_roots(d) \cup UNION {d[m].cells : m \in topo_roots(d)}

\* the edges added the other way round: edge(module, design->module(cell->type))
topo_edges_reversed(d) == {e \in Modules \X Modules : e[1] \in topo_roots(d) /\ e[2] \in d[e[1]].cells}

\* topo_design.edge(design->module(cell->type), module): <<left, right>>, left sorted first
topo_edges(d) == {e \in Modules \X Modules : e[2] \in topo_roots(d) /\ e[1] \in d[e[2]].cells}

\* TopoSort: the orders of the nodes that put the left end of every edge before the right
\* end; modules are compared by address, so any such order can come out.  None exists
\* when the edges form a loop, and sort() then returns false.
TopoSorted(nodes, edges) ==
    {o \in Orders(nodes) : \A e \in edges : e[1] # e[2] /\ Pos(o, e[1]) < Pos(o, e[2])}

Token(part, m) == [part |-> part, module |-> m]

\* what the header file holds before the command runs
OldHeader == <<Token("stale", 0)>>

dump_module_intf(m) == <<Token("intf", m)>>

dump_module_impl(m) == <<Token("impl", m)>>

RECURSIVE dump_interfaces(_, _)
dump_interfaces(d, order) ==
    IF order = <<>> THEN <<>>
    ELSE (IF selected_module(d, Head(order)) THEN dump_module_intf(Head(order)) ELSE <<>>)
         \o dump_interfaces(d, Tail(order))

(***************************************************************************)
(* The designs explored for prepare_design: each module also records its   *)
(* init-type sync rule and its packed $mem cell, which are absent, present *)
(* or removed by a pass.                                                   *)
(***************************************************************************)
PrepareDesigns(M) ==
    [M -> {Module(bb, sel, {}, FALSE, FALSE) @@ [sync_init |-> i, packed_mem |-> p] :
              bb \in BOOLEAN, sel \in {"none", "whole", "partial"},
              i \in {"absent", "present"}, p \in {"absent", "present"}}]

\* check_design: the two flags it returns
check_has_sync_init(d) ==
    \E m \in Modules : ~d[m].blackbox /\ selected_module(d, m) /\ d[m].sync_init = "present"

check_has_packed_mem(d) ==
    \E m \in Modules : ~d[m].blackbox /\ selected_module(d, m) /\ d[m].packed_mem = "present"

\* the design after a pass that removes `field` from the modules of S
after_pass(d, field, S) ==
    [m \in Modules |-> IF m \in S /\ d[m][field] = "present"
                          THEN [d[m] EXCEPT ![field] = "removed"] ELSE d[m]]

\* analyze_design meets a $mem cell or an init-type sync rule in a module it visits
analyze_asserts(d) ==
    \E m \in Modules : selected_module(d, m)
                       /\ (d[m].packed_mem = "present" \/ d[m].sync_init = "present")

(***************************************************************************)
(* State of one write_cxxrtl run (CxxrtlWorker and the locals of           *)
(* analyze_design and Scheduler::schedule), and the record of past runs.   *)
(***************************************************************************)
VARIABLES design, opt_level,
          elide_internal, elide_public, localize_internal, localize_public, run_splitnets,
          sigmap, sync_wires, sync_types, elided_wires, schedule, localized_wires,
          flow, scheduler, s1, s2r, bins_empty, phase,
          eval_order, evaluated, feedback_wires, has_feedback_arcs,
          pc, hist,
          names, high_alnum, mangled,
          modules, split_intf, intf_file, impl_stream, f, sorted, todo, run, prev_out,
          calls, has_sync_init, has_packed_mem,
          sim, writable_memories, transparent_for, inlining

flag_vars == <<elide_internal, elide_public, localize_internal, localize_public, run_splitnets>>

sched_vars == <<scheduler, s1, s2r, bins_empty, phase>>

result_vars == <<sigmap, sync_wires, sync_types, elided_wires, schedule, localized_wires,
                 flow, eval_order, evaluated, feedback_wires, has_feedback_arcs,
                 writable_memories, transparent_for>>

analysis_vars == <<design, opt_level, flag_vars, sched_vars, result_vars, hist>>

mangle_vars == <<names, high_alnum, mangled>>

dump_vars == <<modules, split_intf, intf_file, impl_stream, f, sorted, todo, run, prev_out>>

prepare_vars == <<calls, has_sync_init, has_packed_mem>>

vars == <<analysis_vars, pc, mangle_vars, dump_vars, prepare_vars, sim, inlining>>

NoNode == 0

MaxOptLevel == 5

NoRun == [done |-> FALSE, elided |-> {}, localized |-> {}, feedback |-> {}]

\* a freshly constructed CxxrtlWorker
WorkerInit ==
    /\ elide_internal = FALSE /\ elide_public = FALSE
    /\ localize_internal = FALSE /\ localize_public = FALSE
    /\ run_splitnets = FALSE
    /\ sigmap = [w \in Wires |-> w]
    /\ sync_wires = {}
    /\ sync_types = [w \in Wires |-> "none"]
    /\ elided_wires = [w \in Wires |-> NoNode]
    /\ schedule = <<>>
    /\ localized_wires = {}
    /\ flow = EmptyFlow
    /\ scheduler = EmptyScheduler
    /\ s1 = <<>> /\ s2r = <<>> /\ bins_empty = FALSE /\ phase = "sinks"
    /\ eval_order = <<>> /\ evaluated = {} /\ feedback_wires = {}
    /\ has_feedback_arcs = FALSE
    /\ writable_memories = {}
    /\ transparent_for = [r \in NodeIds |-> {}]

\* the same, for the worker of the next command
WorkerReset ==
    /\ elide_internal' = FALSE /\ elide_public' = FALSE
    /\ localize_internal' = FALSE /\ localize_public' = FALSE
    /\ run_splitnets' = FALSE
    /\ sigmap' = [w \in Wires |-> w]
    /\ sync_wires' = {}
    /\ sync_types' = [w \in Wires |-> "none"]
    /\ elided_wires' = [w \in Wires |-> NoNode]
    /\ schedule' = <<>>
    /\ localized_wires' = {}
    /\ flow' = EmptyFlow
    /\ scheduler' = EmptyScheduler
    /\ s1' = <<>> /\ s2r' = <<>> /\ bins_empty' = FALSE /\ phase' = "sinks"
    /\ eval_order' = <<>> /\ evaluated' = {} /\ feedback_wires' = {}
    /\ has_feedback_arcs' = FALSE
    /\ writable_memories' = {}
    /\ transparent_for' = [r \in NodeIds |-> {}]

\* no name is being mangled
MangleIdle ==
    /\ names = [a |-> <<>>, b |-> <<>>]
    /\ high_alnum = FALSE
    /\ mangled = [a |-> mangle(<<>>, FALSE), b |-> mangle(<<>>, FALSE)]

NoOutput == [intf |-> <<>>, impl |-> <<>>]

\* no design is being written
DumpIdle ==
    /\ modules = [m \in Modules |-> Module(FALSE, "none", {}, FALSE, FALSE)]
    /\ split_intf = FALSE
    /\ intf_file = OldHeader
    /\ impl_stream = <<>>
    /\ f = <<>>
    /\ sorted = <<>> /\ todo = <<>>
    /\ run = 1
    /\ prev_out = NoOutput

\* prepare_design has not been entered
PrepareIdle ==
    /\ calls = <<>>
    /\ has_sync_init = FALSE /\ has_packed_mem = FALSE

\* the emitted module before its first eval(): every wire holds 0 and no edge flag is true
NoSim == [curr |-> [w \in Wires |-> 0], next |-> [w \in Wires |-> 0],
          prev |-> [w \in Wires |-> 0], flags |-> {}, raised |-> {}, reported |-> {},
          changed |-> FALSE, last |-> "none", fresh |-> {}, seen |-> {}, ran |-> {}]

\* the emitted module is not being run
SimIdle == sim = NoSim

\* no signal is being written: there is no activation of dump_sigspec
InlineIdle == inlining = <<>>

\* no module is being analysed
AnalysisIdle ==
    /\ design = [wires |-> [w \in Wires |-> WireKinds[1]], nodes |-> <<>>, sigmap |-> [w \in Wires |-> w]]
    /\ opt_level = 0
    /\ WorkerInit
    /\ hist = [l \in 0..MaxOptLevel |-> NoRun]

Init ==
    /\ design \in Designs(MaxNodes)
    /\ opt_level = 0
    /\ WorkerInit
    /\ pc = "execute"
    /\ hist = [l \in 0..MaxOptLevel |-> NoRun]
    /\ MangleIdle /\ DumpIdle /\ PrepareIdle /\ SimIdle /\ InlineIdle

(***************************************************************************)
(* CxxrtlBackend::execute: the optimization level sets the worker's flags. *)
(***************************************************************************)
FlagOfCase(c) ==
    CASE c = 5 -> "run_splitnets"
      [] c = 4 -> "localize_public"
      [] c = 3 -> "elide_public"
      [] c = 2 -> "localize_internal"
      [] OTHER -> "elide_internal"

\* the switch with a break at the end of case 3
FlagsSet_break(level) == {FlagOfCase(c) : c \in (IF level >= 3 THEN 3 ELSE 1)..level}

\* no case of the switch ends in a break: case n falls through to case 1
FlagsSet(level) == {FlagOfCase(c) : c \in 1..level}

Execute ==
    /\ pc = "execute"
    /\ run_splitnets' = ("run_splitnets" \in FlagsSet(opt_level))
    /\ localize_public' = ("localize_public" \in FlagsSet(opt_level))
    /\ elide_public' = ("elide_public" \in FlagsSet(opt_level))
    /\ localize_internal' = ("localize_internal" \in FlagsSet(opt_level))
    /\ elide_internal' = ("elide_internal" \in FlagsSet(opt_level))
    /\ pc' = "flow"
    /\ UNCHANGED <<inlining, sim, prepare_vars, mangle_vars, dump_vars, design, opt_level, sched_vars, result_vars, hist>>

(***************************************************************************)
(* analyze_design, first part: the flow graph and the edge signals.        *)
(***************************************************************************)
\* register_edge_signal keeping the type of the last request
register_edge_signal_last(reg, map, signal, type) ==
    LET wire == map[as_wire(signal)]
    IN  [sync_types |-> [reg.sync_types EXCEPT ![wire] = type],
         sync_wires |-> reg.sync_wires \cup {wire}]

\* log_assert(signal.is_wire() && signal.is_bit()): the signal is an entire one-bit wire
edge_signal_ok(signal) == is_wire(signal)

register_edge_signal(reg, map, signal, type) ==
    LET wire == map[as_wire(signal)]
    IN  IF ~edge_signal_ok(signal) THEN reg
        ELSE
        [sync_types |-> [reg.sync_types EXCEPT ![wire] = IF @ = "none" THEN type
                                                          ELSE IF @ # type THEN "STe" ELSE @],
         sync_wires |-> reg.sync_wires \cup {wire}]

register_node(reg, map, data) ==
    CASE data.type = "CELL" /\ data.ctype \in {"$dff", "$dffe", "$adff", "$dffsr"} ->
            IF is_wire(data.clk)
               THEN register_edge_signal(reg, map, data.clk, IF data.clk_polarity THEN "STp" ELSE "STn")
               ELSE reg
      [] data.type = "CELL" /\ is_mem_port(data.ctype) ->
            IF data.clk_enable /\ is_wire(data.clk)
               THEN register_edge_signal(reg, map, data.clk, IF data.clk_polarity THEN "STp" ELSE "STn")
               ELSE reg
      [] data.type = "PROCESS" /\ data.sync \in EdgeSyncTypes ->
            register_edge_signal(reg, map, data.clk, data.sync)
      [] OTHER -> reg

MemIds == {1, 2}

\* a $memrd or $memwr cell; `first` is its DATA port and `second` its ADDR port
MemPort(ctype, memid, clk, clk_enable, transparent, priority, en, addr, data) ==
    [type |-> "CELL", ctype |-> ctype, first |-> data, second |-> addr, clk |-> clk,
     clk_polarity |-> TRUE, sync |-> "none", memid |-> memid, clk_enable |-> clk_enable,
     transparent |-> transparent, priority |-> priority, en |-> en]

\* writable_memories after the loop over the cells
RECURSIVE collect_writable(_, _, _)
collect_writable(mems, d, i) ==
    IF i > Len(d.nodes) THEN mems
    ELSE collect_writable(IF d.nodes[i].type = "CELL" /\ d.nodes[i].ctype = "$memwr"
                             THEN mems \cup {d.nodes[i].memid} ELSE mems,
                          d, i + 1)

\* memwr_per_domain after the loop over the cells: the clocked write ports of every
\* (clock bit, memory) pair
RECURSIVE collect_memwr(_, _, _, _)
collect_memwr(per_domain, map, d, i) ==
    IF i > Len(d.nodes) THEN per_domain
    ELSE LET cell == d.nodes[i]
         IN  collect_memwr(IF cell.type = "CELL" /\ cell.ctype = "$memwr" /\ cell.clk_enable /\ is_wire(cell.clk)
                              THEN [per_domain EXCEPT ![<<map[as_wire(cell.clk)], cell.memid>>] = @ \cup {i}]
                              ELSE per_domain,
                           map, d, i + 1)

is_transparent_read(cell) ==
    cell.type = "CELL" /\ cell.ctype = "$memrd" /\ cell.clk_enable /\ is_wire(cell.clk) /\ cell.transparent

\* transparent_for filled in the loop that collects the write ports: a read port sees
\* only the write ports listed before it
RECURSIVE transparent_ports_one_pass(_, _, _, _)
transparent_ports_one_pass(tf, map, d, i) ==
    IF i > Len(d.nodes) THEN tf
    ELSE LET cell == d.nodes[i]
             before == [nodes |-> SubSeq(d.nodes, 1, i)]
             per_domain == collect_memwr([k \in Wires \X MemIds |-> {}], map, before, 1)
         IN  transparent_ports_one_pass(IF is_transparent_read(cell)
                                           THEN [tf EXCEPT ![i] = @ \cup per_domain[<<map[as_wire(cell.clk)], cell.memid>>]]
                                           ELSE tf,
                                        map, d, i + 1)

\* transparent_for after the second loop over the cells
RECURSIVE transparent_ports(_, _, _, _)
transparent_ports(tf, map, d, i) ==
    IF i > Len(d.nodes) THEN tf
    ELSE LET cell == d.nodes[i]
             per_domain == collect_memwr([k \in Wires \X MemIds |-> {}], map, d, 1)
         IN  transparent_ports(IF is_transparent_read(cell)
                                  THEN [tf EXCEPT ![i] = @ \cup per_domain[<<map[as_wire(cell.clk)], cell.memid>>]]
                                  ELSE tf,
                               map, d, i + 1)

\* the uses the second loop adds to a read node for the write ports `ports`
RECURSIVE add_port_uses(_, _, _, _)
add_port_uses(fl, d, read, ports) ==
    IF ports = {} THEN fl
    ELSE LET wr == CHOOSE p \in ports : \A q \in ports : p <= q
             cell == d.nodes[wr]
         IN  add_port_uses(add_uses(add_uses(add_uses(fl, read, cell.en), read, cell.second), read, cell.first),
                           d, read, ports \ {wr})

RECURSIVE add_transparent_uses(_, _, _, _)
add_transparent_uses(fl, d, tf, i) ==
    IF i > Len(d.nodes) THEN fl
    ELSE add_transparent_uses(add_port_uses(fl, d, i, tf[i]), d, tf, i + 1)

RECURSIVE add_nodes(_, _, _)
add_nodes(fl, d, i) ==
    IF i > Len(d.nodes) THEN fl ELSE add_nodes(add_node(fl, i, d.nodes[i]), d, i + 1)

RECURSIVE register_nodes(_, _, _, _)
register_nodes(reg, map, d, i) ==
    IF i > Len(d.nodes) THEN reg
    ELSE register_nodes(register_node(reg, map, d.nodes[i]), map, d, i + 1)

\* where the loop over the sync rules of the processes leaves analyze_design: at the
\* first failed assertion or error, or at the elision of wires if there is none
RECURSIVE process_stop(_, _)
process_stop(d, i) ==
    IF i > Len(d.nodes) THEN "elide"
    ELSE LET node == d.nodes[i]
         IN  IF node.type = "PROCESS" /\ node.sync \in EdgeSyncTypes /\ ~edge_signal_ok(node.clk)
                THEN "abort_edge_signal"
             ELSE IF node.sync = "STi" THEN "abort_sync_init"
             ELSE IF node.sync = "STg" THEN "error_global_clock"
             ELSE process_stop(d, i + 1)

BuildFlowGraph ==
    /\ pc = "flow"
    /\ sigmap' = design.sigmap
    /\ LET reg == register_nodes([sync_types |-> sync_types, sync_wires |-> sync_wires],
                                 design.sigmap, design, 1)
       IN  /\ sync_types' = reg.sync_types
           /\ sync_wires' = reg.sync_wires
    /\ writable_memories' = collect_writable(writable_memories, design, 1)
    /\ transparent_for' = transparent_ports(transparent_for, design.sigmap, design, 1)
    /\ flow' = add_transparent_uses(add_nodes(EmptyFlow, design, 1), design,
                                     transparent_ports(transparent_for, design.sigmap, design, 1), 1)
    /\ pc' = process_stop(design, 1)
    /\ UNCHANGED <<inlining, sim, prepare_vars, mangle_vars, dump_vars, design, opt_level, flag_vars, sched_vars, elided_wires, schedule, localized_wires,
                   eval_order, evaluated, feedback_wires, has_feedback_arcs, hist>>

(***************************************************************************)
(* analyze_design, the elision loop.                                       *)
(***************************************************************************)
elision_filter(d, fl, sw, e_int, e_pub, wire) ==
    /\ is_elidable(fl, wire)
    /\ d.wires[wire].port_id = 0
    /\ ~d.wires[wire].keep
    /\ ~(~d.wires[wire].public /\ ~e_int)
    /\ ~(d.wires[wire].public /\ ~e_pub)
    /\ wire \notin sw

ElideCandidates == {w \in Wires : elision_filter(design, flow, sync_wires, elide_internal, elide_public, w)}

ElideWires ==
    /\ pc = "elide"
    /\ IF \E w \in ElideCandidates : Cardinality(flow.wire_defs[w]) # 1
          THEN /\ pc' = "abort_wire_defs"
               /\ UNCHANGED elided_wires
          ELSE /\ pc' = "graph"
               /\ elided_wires' = [w \in Wires |-> IF w \in ElideCandidates
                                                      THEN CHOOSE n \in flow.wire_defs[w] : TRUE
                                                      ELSE elided_wires[w]]
    /\ UNCHANGED <<inlining, sim, writable_memories, transparent_for, prepare_vars, mangle_vars, dump_vars, design, opt_level, flag_vars, sched_vars, sigmap, sync_wires, sync_types, schedule,
                   localized_wires, flow, eval_order, evaluated, feedback_wires, has_feedback_arcs, hist>>

(***************************************************************************)
(* analyze_design, the scheduler graph, and Scheduler::schedule.           *)
(***************************************************************************)
node_defs(fl, node) == {w \in Wires : node \in fl.wire_defs[w]}

\* the edges drawn from the user of a wire to its definer
graph_succs_reversed(fl, node) == {m \in Range(fl.nodes) : \E w \in node_defs(fl, m) : node \in fl.wire_uses[w]}

graph_succs(fl, node) == UNION {fl.wire_uses[w] : w \in node_defs(fl, node)}

BuildScheduler ==
    /\ pc = "graph"
    /\ scheduler' = relink_all([EmptyScheduler EXCEPT
                                   !.vertices = flow.nodes,
                                   !.succs = [v \in NodeIds |-> IF v \in Range(flow.nodes)
                                                                   THEN graph_succs(flow, v) ELSE {}],
                                   !.preds = [v \in NodeIds |-> {u \in Range(flow.nodes) :
                                                                   v \in graph_succs(flow, u)}]],
                               flow.nodes)
    /\ s1' = <<>> /\ s2r' = <<>> /\ bins_empty' = FALSE /\ phase' = "sinks"
    /\ pc' = "sched"
    /\ UNCHANGED <<inlining, sim, prepare_vars, mangle_vars, dump_vars, design, opt_level, flag_vars, result_vars, hist>>

\* remove(vertex), the two pools being iterated in any order
Removals(st, v) ==
    {remove(st, v, po, so) : po \in Orders(st.preds[v] \ {v}), so \in Orders(st.succs[v] \ {v})}

RemoveSink ==
    /\ pc = "sched" /\ phase = "sinks"
    /\ scheduler.sinks # <<>>
    /\ scheduler' \in Removals(scheduler, Head(scheduler.sinks))
    /\ s2r' = Append(s2r, Head(scheduler.sinks))
    /\ UNCHANGED <<inlining, sim, prepare_vars, mangle_vars, dump_vars, design, opt_level, flag_vars, result_vars, s1, bins_empty, phase, pc, hist>>

InSourcesLoop == phase = "sources" \/ scheduler.sinks = <<>>

RemoveSource ==
    /\ pc = "sched" /\ InSourcesLoop
    /\ scheduler.sources # <<>>
    /\ scheduler' \in Removals(scheduler, Head(scheduler.sources))
    /\ s1' = Append(s1, Head(scheduler.sources))
    /\ phase' = "sources"
    /\ UNCHANGED <<inlining, sim, prepare_vars, mangle_vars, dump_vars, design, opt_level, flag_vars, result_vars, s2r, bins_empty, pc, hist>>

RemoveBin ==
    /\ pc = "sched" /\ InSourcesLoop
    /\ scheduler.sources = <<>>
    /\ NonEmptyBins(scheduler) # {}
    /\ scheduler' \in Removals(scheduler, Head(scheduler.bins[MaxBin(scheduler)]))
    /\ s1' = Append(s1, Head(scheduler.bins[MaxBin(scheduler)]))
    /\ bins_empty' = FALSE
    /\ phase' = "sinks"
    /\ UNCHANGED <<inlining, sim, prepare_vars, mangle_vars, dump_vars, design, opt_level, flag_vars, result_vars, s2r, pc, hist>>

\* no bin is left: bins_empty is set and the loop condition decides
ScheduleReturn ==
    /\ pc = "sched" /\ InSourcesLoop
    /\ scheduler.sources = <<>>
    /\ NonEmptyBins(scheduler) = {}
    /\ bins_empty' = TRUE
    /\ phase' = "sinks"
    /\ IF scheduler.sinks = <<>>
          THEN /\ eval_order' = s1 \o Reverse(s2r)
               /\ pc' = IF s1 \o Reverse(s2r) = <<>> THEN "localize" ELSE "feedback"
          ELSE UNCHANGED <<eval_order, pc>>
    /\ UNCHANGED <<inlining, sim, writable_memories, transparent_for, prepare_vars, mangle_vars, dump_vars, design, opt_level, flag_vars, scheduler, s1, s2r, sigmap, sync_wires, sync_types,
                   elided_wires, schedule, localized_wires, flow, evaluated, feedback_wires,
                   has_feedback_arcs, hist>>

(***************************************************************************)
(* analyze_design, the walk over eval_order that fills schedule[module]    *)
(* and finds the feedback wires.                                           *)
(***************************************************************************)
\* the node inserted into `evaluated` only after its wires have been tested
evaluated_before_insert(ev, node) == ev

\* the set `evaluated` as the test evaluated[succ_node] sees it
evaluated_at_test(ev, node) == ev \cup {node}

\* the walk taking every wire the node defines and some node uses for a feedback wire
feedback_of_any_use(fl, ev, node) == {w \in node_defs(fl, node) : fl.wire_uses[w] # {}}

feedback_of(fl, ev, node) ==
    {w \in node_defs(fl, node) : \E succ_node \in fl.wire_uses[w] : succ_node \in evaluated_at_test(ev, node)}

\* the walk without elided_wires.erase(wire)
erase_feedback_kept(ew, fw) == ew

\* elided_wires after the feedback wires fw have been found
erase_feedback(ew, fw) == [w \in Wires |-> IF w \in fw THEN NoNode ELSE ew[w]]

FeedbackStep ==
    /\ pc = "feedback"
    /\ eval_order # <<>>
    /\ LET node == Head(eval_order)
           fw == feedback_of(flow, evaluated, node)
       IN  /\ schedule' = Append(schedule, node)
           /\ evaluated' = evaluated \cup {node}
           /\ feedback_wires' = feedback_wires \cup fw
           /\ elided_wires' = erase_feedback(elided_wires, fw)
    /\ eval_order' = Tail(eval_order)
    /\ pc' = IF Tail(eval_order) = <<>> THEN "localize" ELSE "feedback"
    /\ UNCHANGED <<inlining, sim, writable_memories, transparent_for, prepare_vars, mangle_vars, dump_vars, design, opt_level, flag_vars, sched_vars, sigmap, sync_wires, sync_types,
                   localized_wires, flow, has_feedback_arcs, hist>>

(***************************************************************************)
(* analyze_design, the localization loop.                                  *)
(***************************************************************************)
\* the localization loop with the two visibility flags exchanged
localization_filter_swapped(d, fl, sw, fw, l_int, l_pub, wire) ==
    /\ wire \notin fw
    /\ d.wires[wire].port_id = 0
    /\ ~d.wires[wire].keep
    /\ ~(~d.wires[wire].public /\ ~l_pub)
    /\ ~(d.wires[wire].public /\ ~l_int)
    /\ wire \notin sw
    /\ Cardinality(fl.wire_defs[wire]) = 1

localization_filter(d, fl, sw, fw, l_int, l_pub, wire) ==
    /\ wire \notin fw
    /\ d.wires[wire].port_id = 0
    /\ ~d.wires[wire].keep
    /\ ~(~d.wires[wire].public /\ ~l_int)
    /\ ~(d.wires[wire].public /\ ~l_pub)
    /\ wire \notin sw
    /\ Cardinality(fl.wire_defs[wire]) = 1

LocalizeWires ==
    /\ pc = "localize"
    /\ has_feedback_arcs' = (feedback_wires # {})
    /\ localized_wires' = localized_wires \cup
          {w \in Wires : localization_filter(design, flow, sync_wires, feedback_wires,
                                             localize_internal, localize_public, w)}
    /\ pc' = "done"
    /\ hist' = [hist EXCEPT ![opt_level] =
                   [done |-> TRUE,
                    elided |-> {w \in Wires : elided_wires[w] # NoNode},
                    localized |-> localized_wires',
                    feedback |-> feedback_wires]]
    /\ UNCHANGED <<inlining, sim, writable_memories, transparent_for, prepare_vars, mangle_vars, dump_vars, design, opt_level, flag_vars, sched_vars, sigmap, sync_wires, sync_types,
                   elided_wires, schedule, flow, eval_order, evaluated, feedback_wires>>

(***************************************************************************)
(* The next write_cxxrtl command, one optimization level higher, on the    *)
(* same design and with a new worker.                                      *)
(***************************************************************************)
NextRun ==
    /\ pc = "done"
    /\ opt_level < MaxOptLevel
    /\ opt_level' = opt_level + 1
    /\ WorkerReset
    /\ pc' = "execute"
    /\ UNCHANGED <<inlining, sim, prepare_vars, mangle_vars, dump_vars, design, hist>>

Next ==
    \/ Execute
    \/ BuildFlowGraph
    \/ ElideWires
    \/ BuildScheduler
    \/ RemoveSink
    \/ RemoveSource
    \/ RemoveBin
    \/ ScheduleReturn
    \/ FeedbackStep
    \/ LocalizeWires
    \/ NextRun

Spec == Init /\ [][Next]_vars

(***************************************************************************)
(* One write_cxxrtl command at the highest level on a module of processes. *)
(***************************************************************************)
InitSched ==
    /\ design \in SchedDesigns(MaxProcs)
    /\ opt_level = MaxOptLevel
    /\ WorkerInit
    /\ pc = "execute"
    /\ hist = [l \in 0..MaxOptLevel |-> NoRun]
    /\ MangleIdle /\ DumpIdle /\ PrepareIdle /\ SimIdle /\ InlineIdle

NextSched ==
    \/ Execute
    \/ BuildFlowGraph
    \/ ElideWires
    \/ BuildScheduler
    \/ RemoveSink
    \/ RemoveSource
    \/ RemoveBin
    \/ ScheduleReturn
    \/ FeedbackStep
    \/ LocalizeWires

SpecSched == InitSched /\ [][NextSched]_vars

\* the same on modules of up to MaxNodes processes, the command running until it has
\* nothing left to do
InitSchedLive ==
    /\ design \in SchedDesigns(MaxNodes)
    /\ opt_level = MaxOptLevel
    /\ WorkerInit
    /\ pc = "execute"
    /\ hist = [l \in 0..MaxOptLevel |-> NoRun]
    /\ MangleIdle /\ DumpIdle /\ PrepareIdle /\ SimIdle /\ InlineIdle

SpecSchedLive == InitSchedLive /\ [][NextSched]_vars /\ WF_vars(NextSched)

(***************************************************************************)
(* One write_cxxrtl command at the highest level on a module of storage    *)
(* cells.                                                                  *)
(***************************************************************************)
InitFF ==
    /\ design \in FFDesigns(MaxNodes)
    /\ opt_level = MaxOptLevel
    /\ WorkerInit
    /\ pc = "execute"
    /\ hist = [l \in 0..MaxOptLevel |-> NoRun]
    /\ MangleIdle /\ DumpIdle /\ PrepareIdle /\ SimIdle /\ InlineIdle

SpecFF == InitFF /\ [][NextSched]_vars

(***************************************************************************)
(* The code written for one module.  A worker wk is the record of the      *)
(* module and of what analyze_design left in the CxxrtlWorker.  The text   *)
(* is a sequence of items: a member or a local declaration of a wire, the  *)
(* declaration or the reset of an edge flag, an assignment (with the edge  *)
(* flags that guard it, if any) and a commit of a wire (with the edge      *)
(* flags it can raise).  An expression is the sequence of its operands,    *)
(* each a constant or a wire in one of the forms curr, next and local.     *)
(***************************************************************************)
Operand(wire, form) == [wire |-> wire, form |-> form]

Flag(edge, bit) == [edge |-> edge, bit |-> bit]

RECURSIVE dump_sigspec(_, _, _)
dump_sigspec(wk, sig, is_lhs) ==
    IF sig = <<>> THEN <<>>
    ELSE LET chunk == sig[Len(sig)]
             dump_sigchunk ==
                IF chunk.wire = NoWire THEN <<Operand(NoWire, "const")>>
                ELSE IF ~is_lhs /\ wk.elided_wires[chunk.wire] # NoNode
                   THEN LET node == wk.design.nodes[wk.elided_wires[chunk.wire]]
                        IN  IF node.type = "CONNECT" THEN dump_sigspec(wk, node.second, FALSE)
                            ELSE <<Operand(chunk.wire, "cell")>>
                ELSE IF chunk.wire \in wk.localized_wires THEN <<Operand(chunk.wire, "local")>>
                ELSE <<Operand(chunk.wire, IF is_lhs THEN "next" ELSE "curr")>>
         IN  dump_sigchunk \o dump_sigspec(wk, SubSeq(sig, 1, Len(sig) - 1), is_lhs)

is_connect_elided(wk, conn) ==
    is_wire(conn.first) /\ wk.elided_wires[as_wire(conn.first)] # NoNode

dump_assign(wk, lhs, rhs, events) ==
    <<[part |-> "assign", lhs |-> dump_sigspec(wk, lhs, TRUE), rhs |-> dump_sigspec(wk, rhs, FALSE),
       events |-> events]>>

\* dump_connect without the test for an elided left side
dump_connect_always(wk, conn) == dump_assign(wk, conn.first, conn.second, {})

dump_connect(wk, conn) ==
    IF is_connect_elided(wk, conn) THEN <<>> ELSE dump_assign(wk, conn.first, conn.second, {})

\* the switch over sync->type: the STn case falls through into the STe case
sync_events(type, sync_bit) ==
    CASE type = "STp" -> {Flag("posedge", sync_bit)}
      [] type = "STn" -> {Flag("negedge", sync_bit)}
                         \cup {Flag("posedge", sync_bit), Flag("negedge", sync_bit)}
      [] OTHER -> {Flag("posedge", sync_bit), Flag("negedge", sync_bit)}

dump_process(wk, proc) ==
    IF proc.sync = "none" THEN dump_assign(wk, proc.first, proc.second, {})
    ELSE dump_assign(wk, proc.first, proc.second,
                     sync_events(proc.sync, wk.sigmap[as_wire(proc.clk)]))

\* std::sort of the write ports by PRIORITY; ports of equal priority come out in
\* either order (`tie` picks which)
RECURSIVE sort_by_priority(_, _, _)
sort_by_priority(d, ports, tie) ==
    IF ports = {} THEN <<>>
    ELSE LET least == {p \in ports : \A q \in ports : d.nodes[p].priority <= d.nodes[q].priority}
             head == CHOOSE p \in least : \A q \in least : IF tie THEN p <= q ELSE p >= q
         IN  <<head>> \o sort_by_priority(d, ports \ {head}, tie)

\* the statement of a $memrd or $memwr cell: the edge-flag guard of a clocked port and,
\* for a read port of a writable memory, the snapshot with one conditional update per
\* write port of transparent_for[cell]
dump_cell_mem(wk, id) ==
    LET cell == wk.design.nodes[id]
        guard == IF cell.clk_enable
                    THEN {Flag(IF cell.clk_polarity THEN "posedge" ELSE "negedge", wk.sigmap[as_wire(cell.clk)])}
                    ELSE {}
        order == sort_by_priority(wk.design, wk.transparent_for[id], wk.tie)
    IN  IF cell.ctype = "$memrd"
           THEN <<[part |-> "memrd", node |-> id, events |-> guard,
                   snapshot |-> cell.memid \in wk.writable_memories,
                   updates |-> IF cell.memid \in wk.writable_memories
                                  THEN [k \in DOMAIN order |->
                                          [port |-> order[k],
                                           addr |-> dump_sigspec(wk, wk.design.nodes[order[k]].second, FALSE),
                                           data |-> dump_sigspec(wk, wk.design.nodes[order[k]].first, FALSE),
                                           en |-> dump_sigspec(wk, wk.design.nodes[order[k]].en, FALSE)]]
                                  ELSE <<>>,
                   lhs |-> dump_sigspec(wk, cell.first, TRUE)]>>
           ELSE <<[part |-> "memwr", node |-> id, events |-> guard, priority |-> cell.priority]>>

\* the edge flags of a wire: posedge unless the bit is STn, negedge unless it is STp
edge_flags(wk, wire) ==
    IF wire \in wk.sync_wires /\ wk.sync_types[wire] # "none"
       THEN (IF wk.sync_types[wire] # "STn" THEN <<Flag("posedge", wire)>> ELSE <<>>)
            \o (IF wk.sync_types[wire] # "STp" THEN <<Flag("negedge", wire)>> ELSE <<>>)
       ELSE <<>>

dump_wire(wk, wire, is_local) ==
    IF wk.elided_wires[wire] # NoNode THEN <<>>
    ELSE IF is_local
       THEN IF wire \notin wk.localized_wires THEN <<>> ELSE <<[part |-> "local", wire |-> wire]>>
       ELSE IF wire \in wk.localized_wires THEN <<>>
            ELSE <<[part |-> "member", wire |-> wire]>>
                 \o [i \in DOMAIN edge_flags(wk, wire) |-> [part |-> "flag", flag |-> edge_flags(wk, wire)[i]]]

\* the text of f(1), f(2), ..., f(n) in this order
RECURSIVE Concat(_, _)
Concat(text, n) == IF n = 0 THEN <<>> ELSE Concat(text, n - 1) \o text[n]

\* the wire declarations of dump_module_intf
dump_members(wk) == Concat([w \in Wires |-> dump_wire(wk, w, FALSE)], NumWires)

\* an eval() that leaves the edge flags as they are
dump_flag_resets_none(wk) == <<>>

\* the end of eval(): every posedge_/negedge_ flag of the module is set to false
dump_flag_resets(wk) ==
    Concat([w \in Wires |->
              [i \in DOMAIN edge_flags(wk, w) |-> [part |-> "reset", flag |-> edge_flags(wk, w)[i]]]],
           NumWires)

\* eval(): the locals, the nodes in schedule order, the reset of the edge flags
dump_eval(wk) ==
    Concat([w \in Wires |-> dump_wire(wk, w, TRUE)], NumWires)
    \o Concat([i \in DOMAIN wk.schedule |->
                 LET node == wk.design.nodes[wk.schedule[i]]
                 IN  CASE node.type = "CONNECT" -> dump_connect(wk, node)
                       [] node.type = "PROCESS" -> dump_process(wk, node)
                       [] node.type = "CELL" /\ is_mem_port(node.ctype) -> dump_cell_mem(wk, wk.schedule[i])
                       [] OTHER -> <<[part |-> "cell", node |-> wk.schedule[i]]>>],
              Len(wk.schedule))
    \o dump_flag_resets(wk)

\* commit(): one commit per wire that is not elided
dump_commit_non_elided(wk) ==
    Concat([w \in Wires |->
              IF wk.elided_wires[w] # NoNode THEN <<>>
              ELSE <<[part |-> "commit", wire |-> w, flags |-> Range(edge_flags(wk, w))]>>],
           NumWires)

\* commit(): one commit per wire that is neither elided nor localized
dump_commit(wk) ==
    Concat([w \in Wires |->
              IF wk.elided_wires[w] # NoNode \/ w \in wk.localized_wires THEN <<>>
              ELSE <<[part |-> "commit", wire |-> w, flags |-> Range(edge_flags(wk, w))]>>],
           NumWires)

(***************************************************************************)
(* One write_cxxrtl command at level 0, 1 or 5 on a module of connections  *)
(* and sync rules, up to the text of the module.  f holds the wire         *)
(* declarations of the struct, then the body of eval, then the body of     *)
(* commit.                                                                 *)
(***************************************************************************)
InitEmit ==
    /\ design \in EmitDesigns(MaxNodes)
    /\ opt_level \in {0, 1, MaxOptLevel}
    /\ WorkerInit
    /\ pc = "execute"
    /\ hist = [l \in 0..MaxOptLevel |-> NoRun]
    /\ MangleIdle /\ DumpIdle /\ PrepareIdle /\ SimIdle /\ InlineIdle

EmitModule ==
    /\ pc = "done"
    /\ \E tie \in BOOLEAN :
          LET wk == [design |-> design, sigmap |-> sigmap, elided_wires |-> elided_wires,
                     localized_wires |-> localized_wires, sync_wires |-> sync_wires,
                     sync_types |-> sync_types, schedule |-> schedule,
                     writable_memories |-> writable_memories, transparent_for |-> transparent_for,
                     tie |-> tie]
          IN  f' = dump_members(wk) \o dump_eval(wk) \o dump_commit(wk)
    /\ pc' = "emitted"
    /\ UNCHANGED <<inlining, sim, prepare_vars, analysis_vars, mangle_vars, modules, split_intf, intf_file,
                   impl_stream, sorted, todo, run, prev_out>>

NextEmit ==
    \/ Execute
    \/ BuildFlowGraph
    \/ ElideWires
    \/ BuildScheduler
    \/ RemoveSink
    \/ RemoveSource
    \/ RemoveBin
    \/ ScheduleReturn
    \/ FeedbackStep
    \/ LocalizeWires
    \/ EmitModule

SpecEmit == InitEmit /\ [][NextEmit]_vars

(***************************************************************************)
(* One write_cxxrtl command on a module of memory ports: one $memrd cell   *)
(* of memory 1 and $memwr cells, in any order, after up to two             *)
(* connections.  The clocks are wires 1 and 2, the last wire carries data. *)
(***************************************************************************)
MaxMemPorts == 3

DataWire == NumWires

ReadPorts ==
    {MemPort("$memrd", 1, <<Chunk(c, TRUE)>>, ce, tr, 0, <<Chunk(NoWire, TRUE)>>, <<Chunk(NoWire, TRUE)>>,
             <<Chunk(DataWire, TRUE)>>) : c \in NetWires, ce \in BOOLEAN, tr \in BOOLEAN}

WritePorts ==
    {MemPort("$memwr", m, <<Chunk(c, TRUE)>>, ce, FALSE, p, <<Chunk(DataWire, FALSE)>>, <<Chunk(NoWire, TRUE)>>,
             <<Chunk(DataWire, FALSE)>>) : m \in MemIds, c \in NetWires, ce \in BOOLEAN, p \in 1..2}

MemConnects ==
    {Node("CONNECT", "none", <<Chunk(l, TRUE)>>, <<Chunk(r, TRUE)>>, <<>>, "none") :
        l \in {1, DataWire}, r \in {2, DataWire}}

MemCells(max) ==
    {ns \in UNION {[1..n -> ReadPorts \cup WritePorts] : n \in 1..max} :
        Cardinality({i \in DOMAIN ns : ns[i].ctype = "$memrd"}) = 1}

MemDesigns(max) ==
    UNION {{[wires |-> [w \in Wires |-> WireKinds[1]], nodes |-> ns, sigmap |-> m] : m \in SigMaps(ns)}
           : ns \in MemCells(max)
                    \cup {<<c>> \o cells : c \in MemConnects, cells \in MemCells(max - 1)}
                    \cup {<<c1, c2>> \o cells : c1, c2 \in MemConnects, cells \in MemCells(max - 2)}}

InitMem ==
    /\ design \in MemDesigns(MaxMemPorts)
    /\ opt_level \in {0, MaxOptLevel}
    /\ WorkerInit
    /\ pc = "execute"
    /\ hist = [l \in 0..MaxOptLevel |-> NoRun]
    /\ MangleIdle /\ DumpIdle /\ PrepareIdle /\ SimIdle /\ InlineIdle

SpecMem == InitMem /\ [][NextEmit]_vars

(***************************************************************************)
(* Running the emitted module.  The text in f is executed: eval() ends by  *)
(* resetting the edge flags, commit() commits every member wire and raises *)
(* the edge flags of the sync bits.  The wires are one bit wide, as        *)
(* register_edge_signal requires of a sync signal.                         *)
(***************************************************************************)
CommitChoices ==
    {Node("CONNECT", "none", <<Chunk(l, TRUE)>>, <<Chunk(r, TRUE)>>, <<>>, "none") : l, r \in NetWires}
    \cup {Node("PROCESS", "none", <<Chunk(l, TRUE)>>, <<>>, <<Chunk(c, TRUE)>>, t) :
        l, c \in NetWires, t \in EdgeSyncTypes}

CommitDesigns(max) ==
    UNION {{[wires |-> [w \in Wires |-> IF w \in P THEN WireKinds[3] ELSE WireKinds[1]],
             nodes |-> ns, sigmap |-> m] : P \in SUBSET {1}, m \in SigMaps(ns)}
           : ns \in UNION {[1..n -> CommitChoices] : n \in 1..max}}

\* wire<N>::commit() of the runtime: copies next to curr and reports whether curr changed
wire_commit(curr, next) == [changed |-> curr # next, curr |-> next]

\* the flags one commit statement raises, at level rather than at the edge
commit_flags_level(item, prev, curr, reported) ==
    {fl \in item.flags : (fl.edge = "posedge" /\ curr = 1) \/ (fl.edge = "negedge" /\ curr = 0)}

\* the flags the statements emitted for one wire raise: inside if (wire.commit()),
\* posedge when edge && curr, negedge when edge && !curr
commit_flags(item, prev, curr, reported) ==
    IF ~reported THEN {}
    ELSE LET edge == IF prev # curr THEN 1 ELSE 0
         IN  {fl \in item.flags : \/ fl.edge = "posedge" /\ edge = 1 /\ curr = 1
                                  \/ fl.edge = "negedge" /\ edge = 1 /\ curr = 0}

\* the commit statements of f, run in order from statement i on
RECURSIVE run_commit(_, _, _)
run_commit(text, st, i) ==
    IF i > Len(text) THEN st
    ELSE IF text[i].part # "commit" THEN run_commit(text, st, i + 1)
    ELSE LET w == text[i].wire
             prev == st.curr[w]
             c == wire_commit(st.curr[w], st.next[w])
             raised == commit_flags(text[i], prev, c.curr, c.changed)
         IN  run_commit(text,
                        [st EXCEPT !.prev[w] = prev,
                                   !.curr[w] = c.curr,
                                   !.reported = IF c.changed THEN @ \cup {w} ELSE @,
                                   !.raised = @ \cup raised,
                                   !.flags = @ \cup raised,
                                   !.fresh = @ \cup raised,
                                   !.changed = @ \/ c.changed],
                        i + 1)

InitCommit ==
    /\ design \in CommitDesigns(MaxNodes)
    /\ opt_level \in {0, MaxOptLevel}
    /\ WorkerInit
    /\ pc = "execute"
    /\ hist = [l \in 0..MaxOptLevel |-> NoRun]
    /\ MangleIdle /\ DumpIdle /\ PrepareIdle /\ SimIdle /\ InlineIdle

\* the edge-guarded statements of eval() whose guard is true under the flags `flags`
guarded_run(text, flags) ==
    {i \in DOMAIN text : text[i].part \in {"assign", "memrd", "memwr"} /\ text[i].events \cap flags # {}}

\* one eval(): the edge-guarded statements whose flag is true run, the environment and
\* the nodes write next values, then the edge flags are reset.  `seen` keeps the flags
\* that commit() raised since the eval() before.
RunEval ==
    /\ pc = "emitted"
    /\ \E next \in [Wires -> {0, 1}] :
          /\ \A w \in Wires \ NetWires : next[w] = sim.next[w]
          /\ sim' = [sim EXCEPT !.next = next,
                                !.ran = guarded_run(f, sim.flags),
                                !.seen = sim.fresh,
                                !.fresh = {},
                                !.flags = @ \ {f[i].flag : i \in {j \in DOMAIN f : f[j].part = "reset"}},
                                !.last = "eval"]
    /\ UNCHANGED <<inlining, prepare_vars, analysis_vars, pc, mangle_vars, dump_vars>>

\* one commit()
RunCommit ==
    /\ pc = "emitted"
    /\ sim' = [run_commit(f, [sim EXCEPT !.raised = {}, !.reported = {}, !.changed = FALSE,
                                         !.prev = sim.curr], 1)
                 EXCEPT !.last = "commit"]
    /\ UNCHANGED <<inlining, prepare_vars, analysis_vars, pc, mangle_vars, dump_vars>>

NextCommit ==
    \/ Execute
    \/ BuildFlowGraph
    \/ ElideWires
    \/ BuildScheduler
    \/ RemoveSink
    \/ RemoveSource
    \/ RemoveBin
    \/ ScheduleReturn
    \/ FeedbackStep
    \/ LocalizeWires
    \/ EmitModule
    \/ RunEval
    \/ RunCommit

SpecCommit == InitCommit /\ [][NextCommit]_vars

(***************************************************************************)
(* The first part of analyze_design alone, on the flow-graph netlists.     *)
(***************************************************************************)
InitFlow ==
    /\ design \in FlowDesigns(MaxFlowNodes)
    /\ opt_level = MaxOptLevel
    /\ WorkerInit
    /\ pc = "flow"
    /\ hist = [l \in 0..MaxOptLevel |-> NoRun]
    /\ MangleIdle /\ DumpIdle /\ PrepareIdle /\ SimIdle /\ InlineIdle

SpecFlow == InitFlow /\ [][BuildFlowGraph]_vars

(***************************************************************************)
(* The same step on a module of edge sync rules whose signal is an entire  *)
(* one-bit wire or one bit of a wider wire (always @(posedge clocks[0])).  *)
(***************************************************************************)
EdgeChoices ==
    {Node("PROCESS", "none", <<Chunk(NumWires, TRUE)>>, <<>>, <<Chunk(c, whole)>>, t) :
        c \in NetWires, whole \in BOOLEAN, t \in EdgeSyncTypes}

EdgeDesigns(max) ==
    {[wires |-> [w \in Wires |-> WireKinds[1]], nodes |-> ns, sigmap |-> [w \in Wires |-> w]] :
        ns \in UNION {[1..n -> EdgeChoices] : n \in 1..max}}

InitEdge ==
    /\ design \in EdgeDesigns(MaxNodes)
    /\ opt_level = 0
    /\ WorkerInit
    /\ pc = "flow"
    /\ hist = [l \in 0..MaxOptLevel |-> NoRun]
    /\ MangleIdle /\ DumpIdle /\ PrepareIdle /\ SimIdle /\ InlineIdle

SpecEdge == InitEdge /\ [][BuildFlowGraph]_vars

(***************************************************************************)
(* One write_cxxrtl command at the highest level on a module of up to      *)
(* MaxNodes nodes that are connections, $not cells, $dff and $dffe cells,  *)
(* $memrd ports with or without a clock, processes with one action in the  *)
(* root case and processes with one edge-type sync rule.  Data moves       *)
(* between the first NumNetWires wires, the last wire is the clock.        *)
(***************************************************************************)
ClockSig == <<Chunk(NumWires, TRUE)>>

DeferChoices ==
    {Node("CONNECT", "none", l, r, <<>>, "none") : l \in WholeSigs, r \in WholeSigs}
    \cup {Node("CELL", "$not", y, a, <<>>, "none") : y \in WholeSigs, a \in WholeSigs}
    \cup {Node("CELL", t, q, d, ClockSig, "none") : t \in {"$dff", "$dffe"}, q \in WholeSigs, d \in WholeSigs}
    \cup {MemPort("$memrd", 1, ClockSig, ce, FALSE, 0, <<Chunk(NoWire, TRUE)>>, a, d) :
            ce \in BOOLEAN, a \in WholeSigs, d \in WholeSigs}
    \cup {Node("PROCESS", "none", l, r, <<>>, "none") : l \in WholeSigs, r \in WholeSigs}
    \cup {Node("PROCESS", "none", l, r, ClockSig, t) : l \in WholeSigs, r \in WholeSigs, t \in EdgeSyncTypes}

DeferDesigns(max) ==
    {[wires |-> [w \in Wires |-> WireKinds[1]], nodes |-> ns, sigmap |-> [w \in Wires |-> w]] :
        ns \in UNION {{x \in [1..n -> DeferChoices] :
                         \A i, j \in 1..n : i < j => TypeRank(x[i].type) <= TypeRank(x[j].type)}
                      : n \in 1..max}}

InitDefer ==
    /\ design \in DeferDesigns(MaxNodes)
    /\ opt_level = MaxOptLevel
    /\ WorkerInit
    /\ pc = "execute"
    /\ hist = [l \in 0..MaxOptLevel |-> NoRun]
    /\ MangleIdle /\ DumpIdle /\ PrepareIdle /\ SimIdle /\ InlineIdle

SpecDefer == InitDefer /\ [][NextSched]_vars

(***************************************************************************)
(* dump_sigspec and dump_sigchunk as they run.  `inlining` is the stack of *)
(* the activations of dump_sigspec: the elided wire whose def node is      *)
(* being written in place of the wire (NoWire for the signal at the use    *)
(* site) and the chunks of the signal still to be written, the last chunk  *)
(* first.  The module has up to MaxChain nodes over NumWires internal      *)
(* wires: connections from a wire or a constant, $not cells, the output of *)
(* a user cell, and processes with one action in the root case.            *)
(***************************************************************************)
MaxChain == 3

AnySigs == {<<Chunk(w, TRUE)>> : w \in Wires}

InlineChoices ==
    {Node("CONNECT", "none", l, r, <<>>, "none") : l \in AnySigs, r \in {<<>>} \cup AnySigs}
    \cup {Node("CELL", "$not", y, a, <<>>, "none") : y \in AnySigs, a \in AnySigs}
    \cup {Node("CELL", "\\child", y, <<>>, <<>>, "none") : y \in AnySigs}
    \cup {Node("PROCESS", "none", l, r, <<>>, "none") : l \in AnySigs, r \in AnySigs}

InlineDesigns(max) ==
    {[wires |-> [w \in Wires |-> WireKinds[1]], nodes |-> ns, sigmap |-> [w \in Wires |-> w]] :
        ns \in UNION {{x \in [1..n -> InlineChoices] :
                         \A i, j \in 1..n : i < j => TypeRank(x[i].type) <= TypeRank(x[j].type)}
                      : n \in 1..max}}

InitInline ==
    /\ design \in InlineDesigns(MaxChain)
    /\ opt_level = MaxOptLevel
    /\ WorkerInit
    /\ pc = "execute"
    /\ hist = [l \in 0..MaxOptLevel |-> NoRun]
    /\ MangleIdle /\ DumpIdle /\ PrepareIdle /\ SimIdle /\ InlineIdle

Frame(wire, sig) == [wire |-> wire, todo |-> sig]

\* the signal a node that is written reads: dump_connect and dump_process write the right
\* side, dump_cell the A input; a connection or cell whose output is elided is not written
\* by itself
use_site(wk, node) ==
    IF node.type \in {"CONNECT", "CELL"} /\ is_wire(node.first) /\ wk.elided_wires[as_wire(node.first)] # NoNode
       THEN <<>>
       ELSE node.second

\* dump_sigspec_rhs is entered for the signal read by one node of the schedule
StartInline ==
    /\ pc = "done"
    /\ \E i \in Range(schedule) :
          /\ use_site([elided_wires |-> elided_wires], design.nodes[i]) # <<>>
          /\ inlining' = <<Frame(NoWire, use_site([elided_wires |-> elided_wires], design.nodes[i]))>>
    /\ pc' = "inline"
    /\ UNCHANGED <<sim, prepare_vars, analysis_vars, mangle_vars, dump_vars>>

\* what dump_sigchunk(chunk, is_lhs = false) does: "connect" and "cell" enter the def node
\* of the elided wire, "assert" is log_assert(false), "leaf" writes a name or a constant
sigchunk_case(d, ew, chunk) ==
    IF chunk.wire = NoWire THEN "leaf"
    ELSE IF ew[chunk.wire] # NoNode
       THEN LET node == d.nodes[ew[chunk.wire]]
            IN  CASE node.type = "CONNECT" -> "connect"
                  [] node.type = "CELL" /\ is_elidable_cell(node.ctype) -> "cell"
                  [] node.type = "CELL" -> "leaf"
                  [] OTHER -> "assert"
    ELSE "leaf"

\* one step of the top activation: it returns when no chunk is left, otherwise
\* dump_sigchunk is called on the next chunk
InlineStep ==
    /\ pc = "inline"
    /\ LET top == inlining[Len(inlining)]
           rest == SubSeq(inlining, 1, Len(inlining) - 1)
       IN  IF top.todo = <<>>
              THEN /\ inlining' = rest
                   /\ pc' = IF rest = <<>> THEN "inlined" ELSE "inline"
              ELSE LET chunk == top.todo[Len(top.todo)]
                       top1 == [top EXCEPT !.todo = SubSeq(@, 1, Len(@) - 1)]
                       what == sigchunk_case(design, elided_wires, chunk)
                   IN  /\ inlining' =
                             IF what \in {"connect", "cell"}
                                THEN rest \o <<top1, Frame(chunk.wire, design.nodes[elided_wires[chunk.wire]].second)>>
                                ELSE rest \o <<top1>>
                       /\ pc' = IF what = "assert" THEN "abort_sigchunk" ELSE "inline"
    /\ UNCHANGED <<sim, prepare_vars, analysis_vars, mangle_vars, dump_vars>>

NextInline ==
    \/ Execute
    \/ BuildFlowGraph
    \/ ElideWires
    \/ BuildScheduler
    \/ RemoveSink
    \/ RemoveSource
    \/ RemoveBin
    \/ ScheduleReturn
    \/ FeedbackStep
    \/ LocalizeWires
    \/ StartInline
    \/ InlineStep

\* dump_sigspec is sequential code: once entered, it takes its next step
SpecInline == InitInline /\ [][NextInline]_vars /\ WF_vars(InlineStep)

(***************************************************************************)
(* dump_switch_rule.  A constant is the sequence of its bits, least        *)
(* significant first.  The selector of the switch is the concatenation of  *)
(* the first SwitchBits wires; a case holds its compare patterns and is    *)
(* identified by its position.  The text is a sequence of tokens: the      *)
(* capture of the selector, then per case "} else " (not before the        *)
(* first), "if (tests)" (not for an empty compare), "{" and the body, and  *)
(* a closing "}".                                                          *)
(***************************************************************************)
SwitchBits == 2

MaxCases == 2

CHUNK_SIZE == 32

States == {"S0", "S1", "Sx", "Sz", "Sa"}

\* RTLIL::Const::as_int: the bits that are S1
RECURSIVE as_int(_)
as_int(bits) ==
    IF bits = <<>> THEN 0
    ELSE (IF Head(bits) = "S1" THEN 1 ELSE 0) + 2 * as_int(Tail(bits))

\* RTLIL::Const::extract(offset, len)
extract(bits, offset, len) == [i \in 1..len |-> bits[offset + i]]

\* dump_const_init: one unsigned literal per CHUNK_SIZE bits, lowest chunk first
RECURSIVE dump_const_init(_, _, _)
dump_const_init(data, width, offset) ==
    IF width <= 0 THEN <<>>
    ELSE <<as_int(extract(data, offset, IF width > CHUNK_SIZE THEN CHUNK_SIZE ELSE width))>>
         \o dump_const_init(data, width - CHUNK_SIZE, offset + CHUNK_SIZE)

\* dump_const: value<width>{chunks}
dump_const(data) == [width |-> Len(data), chunks |-> dump_const_init(data, Len(data), 0)]

\* SigSpec::is_fully_def of a constant: every bit is S0 or S1
is_fully_def(compare) == \A i \in DOMAIN compare : compare[i] \in {"S0", "S1"}

\* a mask that keeps every bit, also the undefined ones
compare_mask_ones(compare) == [i \in DOMAIN compare |-> "S1"]

\* compare_mask: S1 at the S0/S1 bits of the pattern, S0 at the others
compare_mask(compare) == [i \in DOMAIN compare |-> IF compare[i] \in {"S0", "S1"} THEN "S1" ELSE "S0"]

\* compare_value: the S0/S1 bits of the pattern, S0 at the others
compare_value(compare) == [i \in DOMAIN compare |-> IF compare[i] \in {"S0", "S1"} THEN compare[i] ELSE "S0"]

\* the test emitted for one compare pattern
dump_compare(compare) ==
    IF is_fully_def(compare)
       THEN [op |-> "eq", value |-> dump_const(compare)]
       ELSE [op |-> "and_uu_eq", width |-> Len(compare), mask |-> dump_const(compare_mask(compare)),
             value |-> dump_const(compare_value(compare))]

RECURSIVE dump_cases(_, _)
dump_cases(cases, k) ==
    IF k > Len(cases) THEN <<>>
    ELSE (IF k > 1 THEN <<[tok |-> "} else "]>> ELSE <<>>)
         \o (IF cases[k].compare # <<>>
                THEN <<[tok |-> "if", case |-> k,
                        tests |-> [j \in DOMAIN cases[k].compare |-> dump_compare(cases[k].compare[j])]]>>
                ELSE <<>>)
         \o <<[tok |-> "{"], [tok |-> "body", case |-> k]>>
         \o dump_cases(cases, k + 1)

dump_switch_rule(rule) ==
    <<[tok |-> "capture", width |-> Len(rule.signal)]>> \o dump_cases(rule.cases, 1) \o <<[tok |-> "}"]>>

\* the runtime's value<N>: bit i of a literal given by its chunks
value_bit(v, i) == (v.chunks[((i - 1) \div CHUNK_SIZE) + 1] \div (2 ^ ((i - 1) % CHUNK_SIZE))) % 2

value_bits(v) == [i \in 1..v.width |-> value_bit(v, i)]

\* the runtime's and_uu<N>(a, b) on bit vectors
and_uu(a, b) == [i \in DOMAIN a |-> a[i] * b[i]]

\* one emitted test on the captured selector
eval_test(test, sel) ==
    IF test.op = "eq" THEN sel = value_bits(test.value)
    ELSE and_uu(sel, value_bits(test.mask)) = value_bits(test.value)

\* the statement if (..) {..} else if (..) {..} else {..} run on the captured selector:
\* the cases whose body is executed
RECURSIVE run_switch(_, _, _, _)
run_switch(text, sel, i, open) ==
    IF i > Len(text) THEN {}
    ELSE CASE text[i].tok = "if" ->
                IF open /\ \E j \in DOMAIN text[i].tests : eval_test(text[i].tests[j], sel)
                   THEN {text[i].case}
                   ELSE run_switch(text, sel, i + 3, open)
           [] text[i].tok = "{" -> IF open THEN {text[i + 1].case} ELSE {}
           [] OTHER -> run_switch(text, sel, i + 1, open)

Patterns == [1..SwitchBits -> States]

Compares ==
    {<<>>} \cup {<<p>> : p \in Patterns} \cup {<<p, q>> : p \in Patterns, q \in {r \in Patterns : is_fully_def(r)}}

\* the switches of up to max cases on the first SwitchBits wires; a case without
\* compare (the default) comes last
SwitchRules(max) ==
    {[signal |-> [i \in 1..SwitchBits |-> Chunk(i, TRUE)], cases |-> [k \in DOMAIN cs |-> [compare |-> cs[k]]]] :
        cs \in UNION {{x \in [1..n -> Compares] : \A k \in 1..(n - 1) : x[k] # <<>>} : n \in 1..max}}

SwitchDesigns(max) ==
    {[wires |-> [w \in Wires |-> WireKinds[1]],
      nodes |-> <<[type |-> "PROCESS", sync |-> "none", switch |-> r]>>,
      sigmap |-> [w \in Wires |-> w]] : r \in SwitchRules(max)}

InitSwitch ==
    /\ design \in SwitchDesigns(MaxCases)
    /\ opt_level = 0
    /\ WorkerInit
    /\ hist = [l \in 0..MaxOptLevel |-> NoRun]
    /\ MangleIdle /\ DumpIdle /\ PrepareIdle /\ SimIdle /\ InlineIdle
    /\ pc = "switch"

DumpSwitch ==
    /\ pc = "switch"
    /\ f' = dump_switch_rule(design.nodes[1].switch)
    /\ pc' = "emitted"
    /\ UNCHANGED <<inlining, sim, prepare_vars, analysis_vars, mangle_vars, modules, split_intf, intf_file,
                   impl_stream, sorted, todo, run, prev_out>>

\* the emitted statement run with some value on the selector wires
RunSwitch ==
    /\ pc = "emitted"
    /\ \E curr \in [Wires -> {0, 1}] :
          /\ \A w \in Wires : w > SwitchBits => curr[w] = 0
          /\ sim' = [sim EXCEPT !.curr = curr,
                                !.ran = run_switch(f, [i \in 1..SwitchBits |-> curr[i]], 1, TRUE),
                                !.last = "eval"]
    /\ UNCHANGED <<inlining, prepare_vars, analysis_vars, pc, mangle_vars, dump_vars>>

NextSwitch == DumpSwitch \/ RunSwitch

SpecSwitch == InitSwitch /\ [][NextSwitch]_vars

(***************************************************************************)
(* The member names generated for two identifiers.                         *)
(***************************************************************************)
MangleNames ==
    /\ pc = "mangle"
    /\ mangled' = [a |-> mangle(names.a, high_alnum), b |-> mangle(names.b, high_alnum)]
    /\ pc' = "mangled"
    /\ UNCHANGED <<inlining, sim, prepare_vars, analysis_vars, names, high_alnum, dump_vars>>

InitMangle ==
    /\ AnalysisIdle /\ DumpIdle /\ PrepareIdle /\ SimIdle /\ InlineIdle
    /\ names \in NamePairs(MaxNameLen, MaxShortLen)
    /\ high_alnum \in BOOLEAN
    /\ mangled = [a |-> mangle(<<>>, FALSE), b |-> mangle(<<>>, FALSE)]
    /\ pc = "mangle"

NextMangle == MangleNames

SpecMangle == InitMangle /\ [][NextMangle]_vars

(***************************************************************************)
(* CxxrtlBackend::execute from the opening of the header file on, and      *)
(* dump_design.  f is the worker's string buffer, intf_file the header     *)
(* file and impl_stream the stream of the implementation.                  *)
(***************************************************************************)
OpenHeader ==
    /\ pc = "open_header"
    /\ intf_file' = IF split_intf THEN <<>> ELSE intf_file
    /\ pc' = "prepare"
    /\ UNCHANGED <<inlining, sim, prepare_vars, analysis_vars, mangle_vars, modules, split_intf, impl_stream, f, sorted, todo, run, prev_out>>

PrepareDesign ==
    /\ pc = "prepare"
    /\ pc' = IF prepare_design(modules) = "ok" THEN "topo" ELSE prepare_design(modules)
    /\ UNCHANGED <<inlining, sim, prepare_vars, analysis_vars, mangle_vars, dump_vars>>

SortModules ==
    /\ pc = "topo"
    /\ IF TopoSorted(topo_nodes(modules), topo_edges(modules)) = {}
          THEN /\ pc' = "abort_topo_sort"
               /\ UNCHANGED sorted
          ELSE /\ sorted' \in TopoSorted(topo_nodes(modules), topo_edges(modules))
               /\ pc' = IF split_intf THEN "intf" ELSE "impl_begin"
    /\ UNCHANGED <<inlining, sim, prepare_vars, analysis_vars, mangle_vars, modules, split_intf, intf_file, impl_stream, f, todo, run, prev_out>>

\* the header: written to f, and f written to the header file
DumpInterfaces ==
    /\ pc = "intf"
    /\ intf_file' = intf_file \o (<<Token("prologue", 0)>> \o dump_interfaces(modules, sorted)
                                  \o <<Token("epilogue", 0)>>)
    /\ f' = <<>>
    /\ pc' = "impl_begin"
    /\ UNCHANGED <<inlining, sim, prepare_vars, analysis_vars, mangle_vars, modules, split_intf, impl_stream, sorted, todo, run, prev_out>>

BeginImplementation ==
    /\ pc = "impl_begin"
    /\ f' = f \o <<Token("prologue", 0)>>
    /\ todo' = sorted
    /\ pc' = "impl"
    /\ UNCHANGED <<inlining, sim, prepare_vars, analysis_vars, mangle_vars, modules, split_intf, intf_file, impl_stream, sorted, run, prev_out>>

\* one round of the loop over topo_design.sorted
DumpModule ==
    /\ pc = "impl"
    /\ todo # <<>>
    /\ LET module == Head(todo)
           intf == IF ~split_intf THEN dump_module_intf(module) ELSE <<>>
       IN  IF ~selected_module(modules, module)
              THEN UNCHANGED <<f, pc>>
              ELSE IF modules[module].unsupported_cell
                      THEN /\ f' = f \o intf
                           /\ pc' = "error_unsupported_cell"
                      ELSE /\ f' = f \o intf \o dump_module_impl(module)
                           /\ UNCHANGED pc
    /\ todo' = Tail(todo)
    /\ UNCHANGED <<inlining, sim, prepare_vars, analysis_vars, mangle_vars, modules, split_intf, intf_file, impl_stream, sorted, run, prev_out>>

FinishDump ==
    /\ pc = "impl"
    /\ todo = <<>>
    /\ impl_stream' = impl_stream \o f \o <<Token("epilogue", 0)>>
    /\ f' = <<>>
    /\ pc' = "finished"
    /\ UNCHANGED <<inlining, sim, prepare_vars, analysis_vars, mangle_vars, modules, split_intf, intf_file, sorted, todo, run, prev_out>>

\* the same command once more on the same design, into a new implementation stream
NextDumpRun ==
    /\ pc = "finished"
    /\ run = 1
    /\ run' = 2
    /\ prev_out' = [intf |-> intf_file, impl |-> impl_stream]
    /\ impl_stream' = <<>>
    /\ sorted' = <<>>
    /\ pc' = "open_header"
    /\ UNCHANGED <<inlining, sim, prepare_vars, analysis_vars, mangle_vars, modules, split_intf, intf_file, f, todo>>

InitDump ==
    /\ AnalysisIdle /\ MangleIdle /\ PrepareIdle /\ SimIdle /\ InlineIdle
    /\ modules \in DumpDesigns(Modules)
    /\ split_intf \in BOOLEAN
    /\ intf_file = OldHeader
    /\ impl_stream = <<>>
    /\ f = <<>>
    /\ sorted = <<>> /\ todo = <<>>
    /\ run = 1
    /\ prev_out = NoOutput
    /\ pc = "open_header"

NextDump ==
    \/ OpenHeader
    \/ PrepareDesign
    \/ SortModules
    \/ DumpInterfaces
    \/ BeginImplementation
    \/ DumpModule
    \/ FinishDump
    \/ NextDumpRun

SpecDump == InitDump /\ [][NextDump]_vars

(***************************************************************************)
(* prepare_design and the call of dump_design that follows it in execute.  *)
(* `calls` lists check_design, the passes, analyze_design and dump_design  *)
(* in the order they are entered.  A pass removes what it is meant to      *)
(* remove from any set of the modules.                                     *)
(***************************************************************************)
InitPrepare ==
    /\ MangleIdle /\ PrepareIdle /\ SimIdle /\ InlineIdle
    /\ design = [wires |-> [w \in Wires |-> WireKinds[1]], nodes |-> <<>>, sigmap |-> [w \in Wires |-> w]]
    /\ opt_level \in {MaxOptLevel - 1, MaxOptLevel}
    /\ elide_internal = TRUE /\ elide_public = TRUE
    /\ localize_internal = TRUE /\ localize_public = TRUE
    /\ run_splitnets = (opt_level = MaxOptLevel)
    /\ sigmap = [w \in Wires |-> w]
    /\ sync_wires = {}
    /\ sync_types = [w \in Wires |-> "none"]
    /\ elided_wires = [w \in Wires |-> NoNode]
    /\ schedule = <<>>
    /\ localized_wires = {}
    /\ flow = EmptyFlow
    /\ scheduler = EmptyScheduler
    /\ s1 = <<>> /\ s2r = <<>> /\ bins_empty = FALSE /\ phase = "sinks"
    /\ eval_order = <<>> /\ evaluated = {} /\ feedback_wires = {}
    /\ has_feedback_arcs = FALSE
    /\ writable_memories = {}
    /\ transparent_for = [r \in NodeIds |-> {}]
    /\ hist = [l \in 0..MaxOptLevel |-> NoRun]
    /\ modules \in PrepareDesigns(Modules)
    /\ split_intf = FALSE
    /\ intf_file = OldHeader
    /\ impl_stream = <<>>
    /\ f = <<>>
    /\ sorted = <<>> /\ todo = <<>>
    /\ run = 1
    /\ prev_out = NoOutput
    /\ pc = "prepare"

\* the first check_design of prepare_design
PrepareCheck ==
    /\ pc = "prepare"
    /\ calls' = Append(calls, "check_design")
    /\ IF check_design(modules) # "ok"
          THEN /\ pc' = check_design(modules)
               /\ UNCHANGED <<has_sync_init, has_packed_mem>>
          ELSE /\ has_sync_init' = check_has_sync_init(modules)
               /\ has_packed_mem' = check_has_packed_mem(modules)
               /\ pc' = "passes"
    /\ UNCHANGED <<inlining, sim, analysis_vars, mangle_vars, dump_vars>>

\* the passes, the second check_design and the assertion
PreparePasses ==
    /\ pc = "passes"
    /\ \E S1 \in SUBSET {m \in Modules : has_sync_init},
          S2 \in SUBSET {m \in Modules : has_packed_mem} :
          LET d1 == after_pass(modules, "sync_init", S1)
              d2 == after_pass(d1, "packed_mem", S2)
              recheck == has_sync_init \/ has_packed_mem
          IN  /\ modules' = d2
              /\ calls' = calls
                          \o (IF has_sync_init THEN <<"proc_prune", "proc_clean", "proc_init">> ELSE <<>>)
                          \o (IF has_packed_mem THEN <<"memory_unpack">> ELSE <<>>)
                          \o (IF recheck THEN <<"check_design">> ELSE <<>>)
              /\ has_sync_init' = (IF recheck THEN check_has_sync_init(d2) ELSE has_sync_init)
              /\ has_packed_mem' = (IF recheck THEN check_has_packed_mem(d2) ELSE has_packed_mem)
              /\ pc' = IF recheck /\ (check_has_sync_init(d2) \/ check_has_packed_mem(d2))
                          THEN "abort_unresolved" ELSE "analyze"
    /\ UNCHANGED <<inlining, sim, analysis_vars, mangle_vars, split_intf, intf_file, impl_stream, f, sorted, todo,
                   run, prev_out>>

\* splitnets and opt_clean if asked for, then analyze_design
PrepareAnalyze ==
    /\ pc = "analyze"
    /\ calls' = calls
                \o (IF run_splitnets THEN <<"splitnets -driver", "opt_clean -purge">> ELSE <<>>)
                \o <<"analyze_design">>
    /\ pc' = IF analyze_asserts(modules) THEN "abort_in_analysis" ELSE "prepared"
    /\ UNCHANGED <<inlining, sim, analysis_vars, mangle_vars, dump_vars, has_sync_init, has_packed_mem>>

\* execute: dump_design follows prepare_design
StartDump ==
    /\ pc = "prepared"
    /\ calls' = Append(calls, "dump_design")
    /\ pc' = "dumping"
    /\ UNCHANGED <<inlining, sim, analysis_vars, mangle_vars, dump_vars, has_sync_init, has_packed_mem>>

NextPrepare ==
    \/ PrepareCheck
    \/ PreparePasses
    \/ PrepareAnalyze
    \/ StartDump

SpecPrepare == InitPrepare /\ [][NextPrepare]_vars

(***************************************************************************)
(* Properties of the analysis.                                             *)
(***************************************************************************)
Elided == {w \in Wires : elided_wires[w] # NoNode}

IsPermutation(seq, S) == Len(seq) = Cardinality(S) /\ Range(seq) = S

AnalysisDone == pc = "done"

HasSelfLoop == \E n \in Range(flow.nodes) : n \in graph_succs(flow, n)

HasTwoCycle == \E n, m \in Range(flow.nodes) :
                  n # m /\ m \in graph_succs(flow, n) /\ n \in graph_succs(flow, m)

\* C1: the order returned by Scheduler::schedule, and its copy schedule[module] once the
\* walk over it has finished, hold every flow-graph node exactly once.
C1_ScheduleComplete ==
    /\ pc \in {"feedback", "localize", "done"} => IsPermutation(schedule \o eval_order, Range(flow.nodes))
    /\ pc \in {"localize", "done"} => IsPermutation(schedule, Range(flow.nodes))

C1_Witness ==
    /\ AnalysisDone
    /\ Len(schedule) = MaxProcs
    /\ HasSelfLoop /\ HasTwoCycle
    /\ \E n \in Range(flow.nodes) : graph_succs(flow, n) = {} /\ node_defs(flow, n) = {}

SingleDef(w) == Cardinality(flow.wire_defs[w]) = 1

TheDef(w) == CHOOSE n \in flow.wire_defs[w] : TRUE

\* C2 as stated: a wire with a single def node is a feedback wire iff that node is scheduled
\* strictly later than some node that uses the wire.
C2_StrictlyLater ==
    AnalysisDone =>
        \A w \in Wires : SingleDef(w) =>
            (w \in feedback_wires <=>
                \E u \in flow.wire_uses[w] : Pos(schedule, u) < Pos(schedule, TheDef(w)))

\* C2 amended: a wire with a single def node is a feedback wire iff that node is scheduled
\* no earlier than some node that uses the wire; the def node itself counts when it uses the wire.
C2_NotEarlier ==
    AnalysisDone =>
        \A w \in Wires : SingleDef(w) =>
            (w \in feedback_wires <=>
                \E u \in flow.wire_uses[w] : Pos(schedule, u) <= Pos(schedule, TheDef(w)))

\* one wire is a feedback wire only through its own def node, another through an earlier node
C2_Witness ==
    /\ AnalysisDone
    /\ \E w \in feedback_wires :
          /\ SingleDef(w) /\ TheDef(w) \in flow.wire_uses[w]
          /\ \A u \in flow.wire_uses[w] : Pos(schedule, u) >= Pos(schedule, TheDef(w))
    /\ \E w \in feedback_wires :
          /\ SingleDef(w)
          /\ \E u \in flow.wire_uses[w] : Pos(schedule, u) < Pos(schedule, TheDef(w))

LocalizeFlag(w) == IF design.wires[w].public THEN localize_public ELSE localize_internal

\* C3 as stated: no wire is in both elided_wires and localized_wires.
C3_Exclusive == AnalysisDone => Elided \cap localized_wires = {}

\* C3 amended: a wire of elided_wires is in localized_wires exactly when the localize flag
\* of its visibility is set; the two sets are disjoint only while that flag is off.
C3_ElidedLocalizedIffFlag ==
    AnalysisDone => \A w \in Elided : (w \in localized_wires <=> LocalizeFlag(w))

C3_Witness ==
    /\ AnalysisDone
    /\ \E w \in Elided : w \in localized_wires

\* C4: a port, a keep wire, a sync wire and a feedback wire are neither elided nor localized.
C4_NeverOptimized ==
    AnalysisDone =>
        \A w \in Wires :
            (design.wires[w].port_id # 0 \/ design.wires[w].keep \/ w \in sync_wires \/ w \in feedback_wires)
                => (w \notin Elided /\ w \notin localized_wires)

\* a wire that passed the elision filter and was then found to be a feedback wire
C4_Witness ==
    /\ AnalysisDone
    /\ \E w \in feedback_wires : w \in ElideCandidates

ExpectedFlags(level) ==
    [elide_internal |-> level >= 1, localize_internal |-> level >= 2, elide_public |-> level >= 3,
     localize_public |-> level >= 4, run_splitnets |-> level >= 5]

C10_OneDefWhenElidable ==
    /\ pc \notin {"execute", "flow"} =>
          \A w \in Wires : is_elidable(flow, w) =>
              /\ SingleDef(w)
              /\ Cardinality(flow.wire_uses[w]) = 1
    /\ pc \notin {"execute", "flow"} => \A w \in ElideCandidates : SingleDef(w)
    /\ pc # "abort_wire_defs"

\* C5: two distinct identifiers have distinct mangled names, which start with p_ or i_, and
\* the member names of a wire, a memory and a cell never collide, whatever their identifiers.
C5_MangleInjective ==
    pc = "mangled" =>
        /\ names.a # names.b =>
              /\ mangled.a.wire # mangled.b.wire
              /\ mangled.a.memory # mangled.b.memory
              /\ mangled.a.cell # mangled.b.cell
        /\ \A x, y \in {mangled.a, mangled.b} :
              x.wire # y.memory /\ x.wire # y.cell /\ x.memory # y.cell
        /\ \A n \in {"a", "b"} :
              SubSeq(mangled[n].wire, 1, 2) = (IF Head(names[n]) = 92 THEN <<112, 95>> ELSE <<105, 95>>)

\* the names \_2d_ and \- have been mangled: an escape next to the text that spells it
C5_Witness ==
    /\ pc = "mangled"
    /\ names.a = <<92, 95, 50, 100, 95>>
    /\ names.b = <<92, 45>>
    /\ mangled.a.wire = <<112, 95, 95, 95, 50, 100, 95, 95>>
    /\ mangled.b.wire = <<112, 95, 95, 50, 100, 95>>

(***************************************************************************)
(* Properties of the written output.                                       *)
(***************************************************************************)
Count(seq, x) == Cardinality({i \in DOMAIN seq : seq[i] = x})

\* the stream that holds the interfaces
IntfOut == IF split_intf THEN intf_file ELSE impl_stream

EmittedOnce(m) == Count(IntfOut, Token("intf", m)) = 1 /\ Count(impl_stream, Token("impl", m)) = 1

NotEmitted(m) == Count(IntfOut, Token("intf", m)) = 0 /\ Count(impl_stream, Token("impl", m)) = 0

\* everything written for module c comes before anything written for module m
WrittenBefore(seq, c, m) ==
    \A i, j \in DOMAIN seq : seq[i].module = c /\ seq[j].module = m => i < j

InOrder(c, m) == WrittenBefore(intf_file, c, m) /\ WrittenBefore(impl_stream, c, m)

\* C7 as stated: every selected module is emitted exactly once, after every module it
\* instantiates.
C7_EachSelectedOnce ==
    pc = "finished" =>
        \A m \in Modules : selected_module(modules, m) =>
            /\ EmittedOnce(m)
            /\ \A c \in modules[m].cells : InOrder(c, m)

\* C7 amended: when the command completes, every selected module that is not a blackbox is
\* emitted exactly once, after every module it instantiates; a selected blackbox module is
\* emitted once if a selected non-blackbox module instantiates it and not at all otherwise;
\* a module that is not selected is not emitted.
C7_NonBlackboxOnceInOrder ==
    pc = "finished" =>
        \A m \in Modules :
            /\ (selected_module(modules, m) /\ ~modules[m].blackbox) =>
                  /\ EmittedOnce(m)
                  /\ \A c \in modules[m].cells : InOrder(c, m)
            /\ (selected_module(modules, m) /\ modules[m].blackbox) =>
                  IF \E parent \in Modules :
                        /\ selected_module(modules, parent) /\ ~modules[parent].blackbox
                        /\ m \in modules[parent].cells
                     THEN EmittedOnce(m) ELSE NotEmitted(m)
            /\ ~selected_module(modules, m) => NotEmitted(m)

\* a module and a module it instantiates have both been emitted
C7_Witness ==
    /\ pc = "finished"
    /\ \E m, c \in Modules :
          /\ m # c /\ c \in modules[m].cells
          /\ selected_module(modules, m) /\ ~modules[m].blackbox
          /\ selected_module(modules, c) /\ ~modules[c].blackbox
          /\ EmittedOnce(m) /\ EmittedOnce(c)

\* C8: the command run again on the same design with the same flags writes the same
\* header and the same implementation.
C8_SameOutput ==
    (pc = "finished" /\ run = 2) =>
        /\ impl_stream = prev_out.impl
        /\ intf_file = prev_out.intf

\* C9: when the command has failed with an error, nothing has been written to the
\* implementation stream and the header file is as it was before the command.
C9_NoPartialOutput ==
    pc \in {"error_partial", "error_global_clock", "error_unsupported_cell"} =>
        /\ impl_stream = <<>>
        /\ intf_file = OldHeader

(***************************************************************************)
(* The flow graph and the edge signals after the first part of             *)
(* analyze_design.                                                         *)
(***************************************************************************)
FlowBuilt == pc = "elide" /\ flow.nodes # <<>>

\* the signals a node reads: the right side of a connection or of an action,
\* the input ports of a cell
node_uses(data) ==
    IF data.type = "CELL"
       THEN LET conns == cell_connections(data)
                sig(i) == IF cell_input(data, conns[i].port) THEN conns[i].sig ELSE <<>>
            IN  IF Len(conns) = 3 THEN sig(1) \o sig(2) \o sig(3) ELSE sig(1) \o sig(2)
       ELSE data.second

\* the places (node, chunk) where wire w is read
UseRefs(d, w) ==
    {r \in (DOMAIN d.nodes) \X (1..3) :
        r[2] \in DOMAIN node_uses(d.nodes[r[1]]) /\ node_uses(d.nodes[r[1]])[r[2]].wire = w}

\* C11 (as stated): wire_use_elidable[w] is true if and only if exactly one
\* node uses w, also when that node names w more than once.
C11_OneUseNode ==
    FlowBuilt => \A w \in Wires :
        flow.wire_use_elidable[w] = "true" <=> Cardinality(flow.wire_uses[w]) = 1

\* C11 (amended): wire_use_elidable[w] is true if and only if w is read in
\* exactly one place, that is by one node that names it in one chunk of one
\* signal; it is false when two nodes read w and also when one node names w
\* twice, and it has no entry when nothing reads w.
C11_OneUseChunk ==
    FlowBuilt => \A w \in Wires :
        /\ flow.wire_use_elidable[w] = "true" <=> Cardinality(UseRefs(design, w)) = 1
        /\ flow.wire_use_elidable[w] = "false" <=> Cardinality(UseRefs(design, w)) > 1
        /\ flow.wire_uses[w] = {r[1] : r \in UseRefs(design, w)}

C11_Witness ==
    /\ FlowBuilt
    /\ \E w \in Wires : /\ Cardinality(flow.wire_uses[w]) = 1
                        /\ Cardinality(UseRefs(design, w)) = 2
                        /\ flow.wire_use_elidable[w] = "false"
    /\ \E w \in Wires : /\ Cardinality(flow.wire_uses[w]) = 1
                        /\ flow.wire_use_elidable[w] = "true"
                        /\ \E i \in DOMAIN design.nodes : Len(node_uses(design.nodes[i])) = 2

\* the types of the edge-signal requests made for the bit that wire w maps to
RequestedTypes(d, w) ==
    {IF d.nodes[i].type = "CELL" THEN (IF d.nodes[i].clk_polarity THEN "STp" ELSE "STn")
                                 ELSE d.nodes[i].sync :
        i \in {j \in DOMAIN d.nodes :
                  /\ \/ d.nodes[j].type = "CELL" /\ d.nodes[j].ctype = "$dff"
                     \/ d.nodes[j].type = "PROCESS" /\ d.nodes[j].sync \in EdgeSyncTypes
                  /\ is_wire(d.nodes[j].clk)
                  /\ d.sigmap[as_wire(d.nodes[j].clk)] = w}}

\* C12: the kind recorded for a bit is STp if every request for the bit was
\* STp, STn if every request was STn, and STe otherwise; it is a function of
\* the set of the requests (so neither their order nor a repetition matters,
\* and STe is final), and a bit with a kind has its wire in sync_wires.
C12_SyncTypeJoin ==
    FlowBuilt => \A w \in Wires :
        /\ sync_types[w] = (IF RequestedTypes(design, w) = {} THEN "none"
                            ELSE IF RequestedTypes(design, w) = {"STp"} THEN "STp"
                            ELSE IF RequestedTypes(design, w) = {"STn"} THEN "STn"
                            ELSE "STe")
        /\ sync_types[w] # "none" => w \in sync_wires

C12_Witness ==
    /\ FlowBuilt
    /\ Len(design.nodes) = 3
    /\ design.nodes[1].type = "CELL" /\ design.nodes[1].clk_polarity
    /\ design.nodes[2].type = "CELL" /\ ~design.nodes[2].clk_polarity
    /\ design.nodes[3].type = "PROCESS" /\ design.nodes[3].sync = "STp"
    /\ \E w \in Wires : /\ \A i \in 1..3 : design.sigmap[as_wire(design.nodes[i].clk)] = w
                        /\ sync_types[w] = "STe"
                        /\ w \in sync_wires

(***************************************************************************)
(* The steps of prepare_design.                                            *)
(***************************************************************************)
IsPrefix(a, b) == Len(a) <= Len(b) /\ a = SubSeq(b, 1, Len(a))

\* the first check_design looks at the selected modules that are not blackboxes
InitFound == \E m \in Modules : /\ ~modules[m].blackbox /\ selected_module(modules, m)
                                /\ modules[m].sync_init # "absent"

MemFound == \E m \in Modules : /\ ~modules[m].blackbox /\ selected_module(modules, m)
                               /\ modules[m].packed_mem # "absent"

StepsInOrder ==
    <<"check_design">>
    \o (IF InitFound THEN <<"proc_prune", "proc_clean", "proc_init">> ELSE <<>>)
    \o (IF MemFound THEN <<"memory_unpack">> ELSE <<>>)
    \o (IF InitFound \/ MemFound THEN <<"check_design">> ELSE <<>>)
    \o (IF run_splitnets THEN <<"splitnets -driver", "opt_clean -purge">> ELSE <<>>)
    \o <<"analyze_design", "dump_design">>

\* C13: the calls made are, in this order, check_design, the three proc
\* passes if an init-type sync rule was found, memory_unpack if a $mem cell
\* was found, check_design again (after a pass), the two splitnets passes if
\* run_splitnets is set, analyze_design and then dump_design; and
\* analyze_design is not entered while a module it visits still holds an
\* init-type sync rule or a $mem cell.
C13_StepsInOrder ==
    /\ IsPrefix(calls, StepsInOrder)
    /\ pc = "dumping" => calls = StepsInOrder
    /\ \A i \in DOMAIN calls : calls[i] = "analyze_design" =>
          \A m \in Modules : selected_module(modules, m) =>
              modules[m].sync_init # "present" /\ modules[m].packed_mem # "present"

(***************************************************************************)
(* Outputs of storage cells and lvalues of sync actions.                   *)
(***************************************************************************)
\* node i is the only node of the module that drives wire w
OnlyDriver(i, w) ==
    /\ is_wire(design.nodes[i].first) /\ as_wire(design.nodes[i].first) = w
    /\ \A j \in DOMAIN design.nodes :
          j # i => \A k \in DOMAIN design.nodes[j].first : design.nodes[j].first[k].wire # w

\* C14: a wire driven only by the Q output of a flip-flop or latch of any
\* type, or only by a sync action, is never in localized_wires.
C14_StorageNotLocalized ==
    AnalysisDone => \A i \in DOMAIN design.nodes : \A w \in Wires :
        /\ OnlyDriver(i, w)
        /\ \/ design.nodes[i].type = "CELL" /\ is_ff_cell(design.nodes[i].ctype)
           \/ design.nodes[i].type = "PROCESS" /\ design.nodes[i].sync \in EdgeSyncTypes
        => w \notin localized_wires

(***************************************************************************)
(* The text written for a module.                                          *)
(***************************************************************************)
Emitted == pc = "emitted"

\* the items of f of one kind
Items(part) == {i \in DOMAIN f : f[i].part = part}

\* the chains a = c[1], c[2], ..., c[n + 1] = b that the n nodes of the module
\* form: a and b are ports, the wires between them are internal and not
\* ports, and each wire of the chain is connected from the one before it
ChainPaths ==
    {c \in [1..(Len(design.nodes) + 1) -> Wires] :
        /\ \A j, k \in DOMAIN c : j # k => c[j] # c[k]
        /\ \A k \in DOMAIN c : (design.wires[c[k]].port_id # 0) <=> (k \in {1, Len(c)})
        /\ \A k \in DOMAIN c : k \notin {1, Len(c)} => ~design.wires[c[k]].public
        /\ \E o \in Orders(DOMAIN design.nodes) : \A k \in DOMAIN design.nodes :
              /\ design.nodes[o[k]].type = "CONNECT"
              /\ design.nodes[o[k]].first = <<Chunk(c[k + 1], TRUE)>>
              /\ design.nodes[o[k]].second = <<Chunk(c[k], TRUE)>>}

Inner(c) == {c[k] : k \in 2..(Len(c) - 1)}

\* C15: for a module that is a chain of whole-wire connections from port a
\* to port b over internal wires, at -O0 one assignment is written per
\* connection (from the current value of a wire to the next value of the
\* wire after it) and every intermediate wire is a member; at -O1 and above
\* every intermediate wire is elided, the only assignment of eval is
\* b.next = a.curr, and no member, no local and no commit is written for an
\* intermediate wire.
C15_ChainCollapses ==
    Emitted => \A c \in ChainPaths :
        IF opt_level = 0
           THEN /\ Cardinality(Items("assign")) = Len(design.nodes)
                /\ \A k \in DOMAIN design.nodes : \E i \in Items("assign") :
                      /\ f[i].lhs = <<Operand(c[k + 1], "next")>>
                      /\ f[i].rhs = <<Operand(c[k], "curr")>>
                /\ \A w \in Inner(c) : \E i \in Items("member") : f[i].wire = w
           ELSE /\ \A w \in Inner(c) : elided_wires[w] # NoNode
                /\ Cardinality(Items("assign")) = 1
                /\ \A i \in Items("assign") :
                      /\ f[i].lhs = <<Operand(c[Len(c)], "next")>>
                      /\ f[i].rhs = <<Operand(c[1], "curr")>>
                      /\ f[i].events = {}
                /\ \A w \in Inner(c) : \A i \in Items("member") \cup Items("local") \cup Items("commit") :
                      f[i].wire # w

C15_Witness ==
    /\ Emitted
    /\ opt_level = 1
    /\ \E c \in ChainPaths : /\ Len(c) = 3
                             /\ design.nodes[1].first = <<Chunk(c[3], TRUE)>>
                             /\ elided_wires[c[2]] # NoNode
                             /\ \E i \in Items("assign") : f[i].rhs = <<Operand(c[1], "curr")>>

(***************************************************************************)
(* Two processes that read each other's wire.                              *)
(***************************************************************************)
WiresOf(sig) == {sig[k].wire : k \in DOMAIN sig} \ {NoWire}

\* the module is two processes, one writes w1 and reads w2, the other writes
\* w2 and reads w1
ProcessLoop(w1, w2) ==
    /\ w1 # w2
    /\ Len(design.nodes) = 2
    /\ \E i, j \in DOMAIN design.nodes :
          /\ i # j
          /\ design.nodes[i].type = "PROCESS" /\ design.nodes[j].type = "PROCESS"
          /\ WiresOf(design.nodes[i].first) = {w1} /\ WiresOf(design.nodes[i].second) = {w2}
          /\ WiresOf(design.nodes[j].first) = {w2} /\ WiresOf(design.nodes[j].second) = {w1}

\* C16: for two processes that read each other's wire, in either order, the
\* analysis never aborts and ends with exactly one of the two wires in
\* feedback_wires; that wire is neither elided nor localized and the
\* feedback-arc message is produced.
C16_OneFeedbackWire ==
    \A w1, w2 \in Wires : ProcessLoop(w1, w2) =>
        /\ pc \notin {"abort_sync_init", "error_global_clock", "abort_wire_defs"}
        /\ AnalysisDone =>
              /\ \E w \in {w1, w2} : feedback_wires = {w}
              /\ feedback_wires \cap Elided = {}
              /\ feedback_wires \cap localized_wires = {}
              /\ has_feedback_arcs

C16_Witness ==
    /\ AnalysisDone
    /\ ProcessLoop(1, 2)
    /\ WiresOf(design.nodes[1].first) = {2}
    /\ \E w \in {1, 2} : feedback_wires = {w} /\ localized_wires = {1, 2} \ {w}
    /\ has_feedback_arcs

(***************************************************************************)
(* The guards of the sync rules.                                           *)
(***************************************************************************)
\* the edge flags that mirror a sync rule of the given type on a bit
MirrorFlags(type, bit) ==
    (IF type \in {"STp", "STe"} THEN {Flag("posedge", bit)} ELSE {})
    \cup (IF type \in {"STn", "STe"} THEN {Flag("negedge", bit)} ELSE {})

SyncRules == {i \in DOMAIN design.nodes :
                 design.nodes[i].type = "PROCESS" /\ design.nodes[i].sync \in EdgeSyncTypes}

\* C17: the actions of every edge-type sync rule are guarded by the posedge
\* flag of its sig-mapped bit only (STp), by the negedge flag only (STn) or
\* by both flags (STe), and no other assignment is guarded.
C17_GuardMirrorsType ==
    Emitted =>
        /\ \A p \in SyncRules : \E i \in Items("assign") :
              /\ WiresOf(design.nodes[p].first) = {f[i].lhs[1].wire}
              /\ f[i].events = MirrorFlags(design.nodes[p].sync, sigmap[as_wire(design.nodes[p].clk)])
        /\ \A i \in Items("assign") : f[i].events # {} => \E p \in SyncRules :
              /\ WiresOf(design.nodes[p].first) = {f[i].lhs[1].wire}
              /\ f[i].events = MirrorFlags(design.nodes[p].sync, sigmap[as_wire(design.nodes[p].clk)])

(***************************************************************************)
(* C18: in one commit(), every edge flag declared for a registered sync    *)
(* bit is raised exactly when the commit of its wire reported a change,    *)
(* the bit differs from its value before the commit and its new value      *)
(* matches the edge (1 for posedge, 0 for negedge); no commit raises both  *)
(* flags of one bit, and a commit that leaves the bit unchanged raises     *)
(* neither.                                                                *)
(***************************************************************************)
Committed == pc = "emitted" /\ sim.last = "commit"

DeclaredFlags == {f[i].flag : i \in Items("flag")}

Rising(w) == w \in sim.reported /\ sim.prev[w] # sim.curr[w] /\ sim.curr[w] = 1

Falling(w) == w \in sim.reported /\ sim.prev[w] # sim.curr[w] /\ sim.curr[w] = 0

C18_EdgeFlagsTrackCommit ==
    Committed =>
        \A w \in sync_wires :
            /\ Flag("posedge", w) \in DeclaredFlags => (Flag("posedge", w) \in sim.raised <=> Rising(w))
            /\ Flag("negedge", w) \in DeclaredFlags => (Flag("negedge", w) \in sim.raised <=> Falling(w))
            /\ ~(Flag("posedge", w) \in sim.raised /\ Flag("negedge", w) \in sim.raised)
            /\ (w \notin sim.reported \/ sim.prev[w] = sim.curr[w]) =>
                  (Flag("posedge", w) \notin sim.raised /\ Flag("negedge", w) \notin sim.raised)

\* one commit in which an STe bit rises and an STp bit falls: only the posedge flag of
\* the first is raised
C18_Witness ==
    /\ Committed
    /\ \E w, v \in sync_wires :
          /\ sync_types[w] = "STe" /\ Rising(w)
          /\ sync_types[v] = "STp" /\ Falling(v)
          /\ sim.raised = {Flag("posedge", w)}

(***************************************************************************)
(* C19: every wire of an emitted module takes exactly one of three forms:  *)
(* an elided wire has no declaration and no commit, a localized wire is    *)
(* declared once as a local of eval and has no member and no commit, any   *)
(* other wire is declared once as a member and committed once.  The wires  *)
(* declared as members are the wires committed, also when a wire is in     *)
(* both elided_wires and localized_wires.                                  *)
(***************************************************************************)
Declared(part, w) == Cardinality({i \in Items(part) : f[i].wire = w})

C19_ThreeForms ==
    Emitted =>
        /\ \A w \in Wires :
              LET form == <<Declared("member", w), Declared("local", w), Declared("commit", w)>>
              IN  /\ form \in {<<0, 0, 0>>, <<0, 1, 0>>, <<1, 0, 1>>}
                  /\ form = <<0, 0, 0>> <=> elided_wires[w] # NoNode
                  /\ form = <<0, 1, 0>> <=> (elided_wires[w] = NoNode /\ w \in localized_wires)
        /\ {f[i].wire : i \in Items("member")} = {f[i].wire : i \in Items("commit")}

\* a module with one wire of each form, the undeclared one both elided and localized
C19_Witness ==
    /\ Emitted
    /\ \E w, x, y \in Wires :
          /\ elided_wires[w] # NoNode /\ w \in localized_wires
          /\ Declared("local", x) = 1
          /\ Declared("member", y) = 1 /\ Declared("commit", y) = 1

(***************************************************************************)
(* C20: for every clocked read port marked TRANSPARENT, transparent_for is *)
(* exactly the set of clocked write ports of the same memory on the same   *)
(* sig-mapped clock bit, wherever the cells stand in the module; the read  *)
(* statement holds one conditional update per write port of that set, in   *)
(* ascending PRIORITY order, on a snapshot that is then assigned to DATA;  *)
(* and the wires of EN, ADDR and DATA of those write ports are uses of the *)
(* read node.                                                              *)
(***************************************************************************)
TransparentReads ==
    {r \in DOMAIN design.nodes :
        /\ design.nodes[r].type = "CELL" /\ design.nodes[r].ctype = "$memrd"
        /\ design.nodes[r].clk_enable /\ design.nodes[r].transparent}

SameDomainWrites(r) ==
    {w \in DOMAIN design.nodes :
        /\ design.nodes[w].type = "CELL" /\ design.nodes[w].ctype = "$memwr"
        /\ design.nodes[w].clk_enable
        /\ design.nodes[w].memid = design.nodes[r].memid
        /\ sigmap[as_wire(design.nodes[w].clk)] = sigmap[as_wire(design.nodes[r].clk)]}

C20_WitnessAlias ==
    /\ Emitted
    /\ \E r \in TransparentReads : \E w \in transparent_for[r] :
          design.nodes[w].clk # design.nodes[r].clk

(***************************************************************************)
(* C21: every posedge_/negedge_ flag of the module is false when eval()    *)
(* returns, so an edge-guarded statement runs only in the eval() that      *)
(* directly follows the commit() that raised one of its flags: an eval()   *)
(* that follows another eval(), or a commit() that raised nothing, runs no *)
(* edge-guarded statement again.                                           *)
(***************************************************************************)
Evaluated == pc = "emitted" /\ sim.last = "eval"

C21_FlagsSeenOnce ==
    /\ Evaluated =>
          /\ sim.flags = {}
          /\ \A i \in sim.ran : f[i].events \cap sim.seen # {}
    /\ pc = "emitted" => sim.flags = sim.fresh

\* a delta cycle: the posedge statement of a clock that rose earlier and stayed high
\* over the last commit() is not run by the eval() that follows
C21_Witness ==
    /\ Evaluated
    /\ \E i \in Items("assign") : \E w \in sync_wires :
          /\ f[i].events = {Flag("posedge", w)}
          /\ sim.prev[w] = 1 /\ sim.curr[w] = 1
          /\ sim.seen = {} /\ sim.ran = {}

(***************************************************************************)
(* C22: an edge sync rule whose signal is one bit of a multi-bit wire is   *)
(* accepted by register_edge_signal: no assertion fails, the kind is       *)
(* recorded for the bit in sync_types and the wire is in sync_wires.       *)
(***************************************************************************)
BitRules ==
    {i \in DOMAIN design.nodes :
        /\ design.nodes[i].type = "PROCESS" /\ design.nodes[i].sync \in EdgeSyncTypes
        /\ ~design.nodes[i].clk[1].whole}

C22_BitOfWireAccepted ==
    pc # "flow" =>
        \A i \in BitRules :
            /\ pc # "abort_edge_signal"
            /\ sync_types[sigmap[design.nodes[i].clk[1].wire]] # "none"
            /\ sigmap[design.nodes[i].clk[1].wire] \in sync_wires

(***************************************************************************)
(* C23: between any two removals of schedule(), every vertex not yet       *)
(* removed is linked in exactly one bucket, the one its sets select (sinks *)
(* if succs is empty, else sources if preds is empty, else the bin of      *)
(* |succs| - |preds|); a removed vertex is in no bucket; among the         *)
(* remaining vertices u is in preds[v] iff v is in succs[u]; and no        *)
(* log_assert of link, unlink and remove has failed.                       *)
(***************************************************************************)
Removed == Range(s1) \cup Range(s2r)

Remaining == Range(scheduler.vertices) \ Removed

Occurs(seq, v) == Cardinality({i \in DOMAIN seq : seq[i] = v})

Links(v) ==
    Occurs(scheduler.sources, v) + Occurs(scheduler.sinks, v)
    + Cardinality({p \in Deltas \X NodeIds :
                     p[2] \in DOMAIN scheduler.bins[p[1]] /\ scheduler.bins[p[1]][p[2]] = v})

C23_BucketInvariant ==
    pc = "sched" =>
        /\ scheduler.ok
        /\ \A v \in Remaining :
              /\ Links(v) = 1
              /\ IF scheduler.succs[v] = {} THEN v \in Range(scheduler.sinks)
                 ELSE IF scheduler.preds[v] = {} THEN v \in Range(scheduler.sources)
                 ELSE v \in Range(scheduler.bins[Cardinality(scheduler.succs[v])
                                                 - Cardinality(scheduler.preds[v])])
        /\ \A v \in Removed : Links(v) = 0
        /\ \A u, v \in Remaining : u \in scheduler.preds[v] <=> v \in scheduler.succs[u]

\* after a removal, a vertex whose only edge left is its self-loop waits in bin 0
C23_Witness ==
    /\ pc = "sched"
    /\ Removed # {}
    /\ \E v \in Remaining :
          /\ scheduler.preds[v] = {v} /\ scheduler.succs[v] = {v}
          /\ v \in Range(scheduler.bins[0])
          /\ \E u \in Removed : v \in graph_succs(flow, u) \/ u \in graph_succs(flow, v)

(***************************************************************************)
(* C24: Scheduler::schedule terminates on every finite graph, also on      *)
(* graphs made only of cycles and on graphs with self-loops: every step of *)
(* its loops removes one more vertex, or finds sinks, sources and all bins *)
(* empty and leaves the loop, which it does only when all three are empty  *)
(* and every vertex has been removed.                                      *)
(***************************************************************************)
AllEmpty == scheduler.sinks = <<>> /\ scheduler.sources = <<>> /\ NonEmptyBins(scheduler) = {}

ScheduleProgress ==
    /\ pc = "sched" =>
        \/ pc' = "sched" /\ Cardinality(Removed') = Cardinality(Removed) + 1
        \/ pc' # "sched" /\ AllEmpty /\ Remaining = {} /\ bins_empty'
    /\ pc = "sched" /\ AllEmpty => pc' # "sched"

C24_ScheduleTerminates ==
    /\ (pc = "sched") ~> (pc # "sched")
    /\ [][ScheduleProgress]_vars

\* a graph made only of cycles, one vertex with a self-loop, all vertices scheduled
C24_Witness ==
    /\ pc = "feedback"
    /\ Len(eval_order) = MaxNodes
    /\ HasSelfLoop
    /\ \A n \in Range(flow.nodes) :
          \E m \in Range(flow.nodes) \ {n} : m \in graph_succs(flow, n) /\ n \in graph_succs(flow, m)

(***************************************************************************)
(* C25: edge-deferred writes create no scheduling dependency.  The Q       *)
(* output of a $dff or $dffe cell, the DATA output of a clocked $memrd     *)
(* cell and the lvalue of an STp/STn/STe sync action add no entry to       *)
(* wire_defs, while the inputs and rvalues of these nodes are recorded as  *)
(* uses.  Hence, if every loop of the netlist passes through such an       *)
(* output, the flow graph has no cycle and feedback_wires stays empty.     *)
(***************************************************************************)
DeferredOutput(data) ==
    \/ data.type = "CELL" /\ data.ctype \in {"$dff", "$dffe"}
    \/ data.type = "CELL" /\ data.ctype = "$memrd" /\ data.clk_enable
    \/ data.type = "PROCESS" /\ data.sync \in {"STp", "STn", "STe"}

\* the wires a node reads: the right side of a connection or of an action, the wires on
\* the input ports of a cell
InputWires(data) ==
    IF data.type = "CELL"
       THEN UNION {WiresOf(cell_connections(data)[k].sig) :
                     k \in {j \in DOMAIN cell_connections(data) :
                              cell_input(data, cell_connections(data)[j].port)}}
       ELSE WiresOf(data.second)

\* node i drives a wire that node j reads, the write of i not being edge-deferred
CombSuccs(d) ==
    [i \in NodeIds |->
        IF i \in DOMAIN d.nodes /\ ~DeferredOutput(d.nodes[i])
           THEN {j \in DOMAIN d.nodes : WiresOf(d.nodes[i].first) \cap InputWires(d.nodes[j]) # {}}
           ELSE {}]

\* the same with every write counted
NetSuccs(d) ==
    [i \in NodeIds |->
        IF i \in DOMAIN d.nodes
           THEN {j \in DOMAIN d.nodes : WiresOf(d.nodes[i].first) \cap InputWires(d.nodes[j]) # {}}
           ELSE {}]

RECURSIVE Reachable(_, _, _)
Reachable(succ, S, k) ==
    IF k = 0 THEN S ELSE Reachable(succ, S \cup UNION {succ[n] : n \in S}, k - 1)

Acyclic(succ) == \A n \in NodeIds : n \notin Reachable(succ, succ[n], Cardinality(NodeIds))

FlowSuccs == [n \in NodeIds |-> IF n \in Range(flow.nodes) THEN graph_succs(flow, n) ELSE {}]

C25_DeferredWritesNoDependency ==
    /\ pc \notin {"execute", "flow"} =>
          /\ \A i \in DOMAIN design.nodes :
                DeferredOutput(design.nodes[i]) =>
                   /\ \A w \in Wires : i \notin flow.wire_defs[w]
                   /\ \A w \in InputWires(design.nodes[i]) : i \in flow.wire_uses[w]
          /\ Acyclic(CombSuccs(design)) => Acyclic(FlowSuccs)
    /\ pc \in {"localize", "done"} /\ Acyclic(CombSuccs(design)) => feedback_wires = {}
    /\ pc = "done" /\ Acyclic(CombSuccs(design)) => ~has_feedback_arcs

\* a register whose Q feeds the logic that drives its own D
C25_Witness ==
    /\ pc = "done"
    /\ Len(design.nodes) = 2
    /\ design.nodes[1].type = "CELL" /\ design.nodes[1].ctype = "$not"
    /\ design.nodes[2].type = "CELL" /\ design.nodes[2].ctype = "$dff"
    /\ design.nodes[1].second = design.nodes[2].first
    /\ design.nodes[2].second = design.nodes[1].first
    /\ ~Acyclic(NetSuccs(design))
    /\ feedback_wires = {}

\* the same loop closed through the lvalue of a negedge sync action, and through the
\* DATA output of a clocked read port
C25_WitnessSync ==
    /\ pc = "done"
    /\ ~Acyclic(NetSuccs(design))
    /\ \E i \in DOMAIN design.nodes : design.nodes[i].type = "PROCESS" /\ design.nodes[i].sync = "STn"
    /\ feedback_wires = {}

C25_WitnessMem ==
    /\ pc = "done"
    /\ ~Acyclic(NetSuccs(design))
    /\ \E i \in DOMAIN design.nodes : design.nodes[i].ctype = "$memrd" /\ design.nodes[i].clk_enable
    /\ \A i \in DOMAIN design.nodes : design.nodes[i].ctype \in {"$memrd", "$not"}
    /\ feedback_wires = {}

(***************************************************************************)
(* C26: in the statement emitted for a switch rule, the test for a         *)
(* constant pattern with undefined bits (x, z, a) is true for exactly the  *)
(* selector values that agree with the pattern on every 0/1 bit, whatever  *)
(* they hold elsewhere; the test for a fully defined pattern is true for   *)
(* exactly the equal value; and the cases form an if / else-if chain, so   *)
(* the body of the first matching case is the only one executed.           *)
(***************************************************************************)
Selector == [i \in 1..SwitchBits |-> sim.curr[i]]

SwitchRan == pc = "emitted" /\ sim.last = "eval"

Agrees(pattern, sel) ==
    \A i \in DOMAIN pattern : /\ pattern[i] = "S0" => sel[i] = 0
                              /\ pattern[i] = "S1" => sel[i] = 1

Matches(case, sel) == case.compare = <<>> \/ \E j \in DOMAIN case.compare : Agrees(case.compare[j], sel)

C26_CaseTests ==
    SwitchRan =>
       LET cases == design.nodes[1].switch.cases
       IN  /\ \A k \in DOMAIN cases :
                 /\ cases[k].compare # <<>> => Cardinality({i \in DOMAIN f : f[i].tok = "if" /\ f[i].case = k}) = 1
                 /\ cases[k].compare = <<>> => \A i \in DOMAIN f : f[i].tok = "if" => f[i].case # k
           /\ \A i \in DOMAIN f : f[i].tok = "if" =>
                 /\ DOMAIN f[i].tests = DOMAIN cases[f[i].case].compare
                 /\ \A j \in DOMAIN f[i].tests :
                       LET pattern == cases[f[i].case].compare[j]
                       IN  /\ eval_test(f[i].tests[j], Selector) <=> Agrees(pattern, Selector)
                           /\ is_fully_def(pattern) =>
                                 (eval_test(f[i].tests[j], Selector) <=>
                                    \A b \in DOMAIN pattern : pattern[b] = (IF Selector[b] = 1 THEN "S1" ELSE "S0"))
           /\ sim.ran = {k \in DOMAIN cases : Matches(cases[k], Selector)
                                               /\ \A l \in 1..(k - 1) : ~Matches(cases[l], Selector)}

\* the selector differs from the pattern at an undefined bit only and the case is taken,
\* although the case after it matches as well
C26_Witness ==
    /\ SwitchRan
    /\ Len(design.nodes[1].switch.cases) = 2
    /\ design.nodes[1].switch.cases[1].compare = <<(<<"S1", "Sx">>)>>
    /\ design.nodes[1].switch.cases[2].compare = <<(<<"Sz", "S1">>)>>
    /\ Selector = <<1, 1>>
    /\ sim.ran = {1}

\* no case matches and no body is executed
C26_WitnessNone ==
    /\ SwitchRan
    /\ \A k \in DOMAIN design.nodes[1].switch.cases :
          /\ design.nodes[1].switch.cases[k].compare # <<>>
          /\ ~is_fully_def(design.nodes[1].switch.cases[k].compare[1])
    /\ sim.ran = {}

(***************************************************************************)
(* C27: if the flow graph of a module has no cycle and no self-loop, the   *)
(* schedule is a topological order: every node that defines a wire is      *)
(* scheduled strictly before every node that uses it, the step that takes  *)
(* a vertex from the bin of greatest delta is never taken, and             *)
(* feedback_wires stays empty (no feedback arcs are reported).             *)
(***************************************************************************)
FlowAcyclic == pc \notin {"execute", "flow"} /\ Acyclic(FlowSuccs)

BinStepDue ==
    /\ pc = "sched" /\ InSourcesLoop
    /\ scheduler.sources = <<>>
    /\ NonEmptyBins(scheduler) # {}

\* schedule() has returned; the feedback walk moves its result, node by node, from
\* eval_order to schedule[module]
Scheduled == pc \in {"feedback", "localize", "done"}

C27_AcyclicTopological ==
    FlowAcyclic =>
       /\ ~BinStepDue
       /\ Scheduled =>
             \A w \in Wires : \A d \in flow.wire_defs[w] : \A u \in flow.wire_uses[w] :
                Pos(schedule \o eval_order, d) < Pos(schedule \o eval_order, u)
       /\ feedback_wires = {}
       /\ ~has_feedback_arcs

\* three processes listed against the data flow: the middle one waits in a bin while
\* sinks and sources are taken, and the schedule reverses the listing
C27_Witness ==
    /\ FlowAcyclic /\ pc = "done"
    /\ graph_succs(flow, 3) = {2} /\ graph_succs(flow, 2) = {1} /\ graph_succs(flow, 1) = {}
    /\ schedule = <<3, 2, 1>>
    /\ feedback_wires = {}

(***************************************************************************)
(* C28: every wire left in elided_wires after analysis has a def node that *)
(* is a connection or a cell, never a process, and that node is scheduled  *)
(* strictly before the single node that uses the wire.  Therefore the      *)
(* substitution at a use site (elided wire -> def node -> the wires that   *)
(* node uses -> ...) never reaches the same wire again, and the recursive  *)
(* inlining of dump_sigchunk terminates.                                   *)
(***************************************************************************)
ElidedWires == {w \in Wires : elided_wires[w] # NoNode}

AfterAnalysis == pc \in {"done", "inline", "inlined", "abort_sigchunk"}

ElidedDefsEarlier ==
    AfterAnalysis =>
       \A w \in ElidedWires :
          /\ design.nodes[elided_wires[w]].type \in {"CONNECT", "CELL"}
          /\ Cardinality(flow.wire_uses[w]) = 1
          /\ \A u \in flow.wire_uses[w] : Pos(schedule, elided_wires[w]) < Pos(schedule, u)

NoWireTwice ==
    /\ \A i, j \in DOMAIN inlining : i < j => inlining[i].wire # inlining[j].wire
    /\ pc # "abort_sigchunk"

C28_InliningTerminates ==
    /\ [](ElidedDefsEarlier /\ NoWireTwice)
    /\ (pc = "inline") ~> (pc = "inlined")

\* the substitution goes through two elided wires: wire c is read, its def node reads
\* wire b, whose def node reads a constant
C28_Witness ==
    /\ pc = "inline"
    /\ Len(inlining) = 3
    /\ inlining[1].wire = NoWire /\ inlining[2].wire # inlining[3].wire
    /\ {inlining[2].wire, inlining[3].wire} \subseteq ElidedWires

(***************************************************************************)
(* The edge flags read by the guards of eval.                              *)
(***************************************************************************)
\* the items of eval that carry a guard: the assignments of the sync rules and the
\* statements of the memory ports
GuardedItems == {i \in DOMAIN f : f[i].part \in {"assign", "memrd", "memwr"} /\ f[i].events # {}}

\* the edge flags that some commit of the text can raise
SettableFlags == UNION {f[i].flags : i \in Items("commit")}

\* the consolidated kind of the bit has the edge of the flag
KindHasEdge(flag) ==
    sync_types[flag.bit] \in (IF flag.edge = "posedge" THEN {"STp", "STe"} ELSE {"STn", "STe"})

\* C29: every posedge or negedge flag read by an emitted guard of eval (a clocked
\* memory port, a sync rule of type STp, STn or STe) is declared in the module
\* interface and can be set by commit(); a posedge flag is read only for a bit whose
\* consolidated kind is STp or STe, a negedge flag only for a bit of kind STn or STe.
C29_GuardFlagsDeclared ==
    Emitted =>
        \A i \in GuardedItems : \A flag \in f[i].events :
            /\ flag \in DeclaredFlags
            /\ flag \in SettableFlags
            /\ KindHasEdge(flag)
====
